---- MODULE Spec2Model ----
(***************************************************************************)
(* Webhook ingestion pipeline of code_review_main: the credential store    *)
(* and authentication gate (webhook-service/src/auth/app_auth.py), the     *)
(* HTTP endpoint and GitHub handler (src/main.py,                          *)
(* src/handlers/github_handler.py) and the channel publisher               *)
(* (src/messaging/kafka_producer.py).                                      *)
(*                                                                         *)
(* Python strings are modelled as sequences of chunks (TLA+ strings), so   *)
(* that prefix tests (startswith), slicing ([7:]) and emptiness (not s)    *)
(* are computed as the code computes them.  Request bodies are bytes and   *)
(* are modelled as atomic TLA+ strings.                                    *)
(***************************************************************************)
EXTENDS Integers, Sequences, FiniteSets, TLC

VARIABLES
    apps,            \* AppAuthManager._apps: app id -> App
    now,             \* the wall clock (datetime.utcnow()), in minutes
    token,           \* the value returned by the last create_access_token
    producer,        \* KafkaProducer.producer: "None" or "started"
    rawTopic,        \* broker log of settings.kafka.github_raw_topic
    validatedTopic,  \* broker log of settings.kafka.github_validated_topic
    call,            \* the operation just executed, its inputs and outcome
    handlers,        \* KafkaConsumer.handlers: topic -> list of handlers
    consumer,        \* KafkaConsumer.consumer: 0 (None) or the AIOKafkaConsumer held
    running,         \* KafkaConsumer.running
    clients,         \* the AIOKafkaConsumer objects created so far
    loops,           \* the _consume_loop tasks created so far
    pending,         \* start() and stop() calls suspended at their broker await
    broker           \* per topic, the records not yet delivered to the consumer group

webhookVars == <<apps, now, token, producer, rawTopic, validatedTopic, call>>

subscriberVars == <<handlers, consumer, running, clients, loops, pending, broker>>

vars == <<apps, now, token, producer, rawTopic, validatedTopic, call,
          handlers, consumer, running, clients, loops, pending, broker>>

----------------------------------------------------------------------------
(* Bounds of the model *)

\* number of clock ticks a behaviour may take
MaxTicks == 1
\* number of messages the raw topic may hold before requests stop arriving
MaxRaw == 1
\* number of undelivered records the validated topic may hold
MaxLog == 1
\* number of handlers that may be registered at a time, over all topics
MaxHandlers == 2
\* number of broker consumers that are open at a time
MaxStarts == 1
\* number of start() calls at or past their await at a time, read loop
\* tasks included
MaxTasks == 2

\* a slot of clients that holds no open consumer
Free == [subscription |-> {}, state |-> "free"]

\* the topics of the subscriber: the validated topic of the webhook service
\* (kafka.github_validated_topic) and one other topic
Topics == {"webhook.github.validated", "other.topic"}

----------------------------------------------------------------------------
(* Strings *)

\* s.startswith(p) for a one-chunk prefix p
startswith(s, p) == Len(s) >= 1 /\ s[1] = p

\* s[7:] after a successful startswith test on a 7-character prefix chunk
slice7(s) == Tail(s)

\* a character outside ASCII (an HTTP header byte >= 0x80, decoded latin-1)
NonAscii == "<non-ascii>"

isascii(s) == \A i \in 1..Len(s) : s[i] # NonAscii

\* marker used when building requests: the header is not sent at all
Absent == <<"<absent>">>

SIG_HEADER == "X-Hub-Signature-256"
KEY_HEADER == "X-App-Key"
AUTHZ_HEADER == "Authorization"
EVENT_HEADER == "X-GitHub-Event"
DELIVERY_HEADER == "X-GitHub-Delivery"

HeaderNames == {SIG_HEADER, KEY_HEADER, AUTHZ_HEADER, EVENT_HEADER, DELIVERY_HEADER}

\* request.headers.get(name): None is modelled by the empty string, which
\* every caller in the source tests with "if not value"
headers_get(request, name) ==
    IF name \in DOMAIN request.headers THEN request.headers[name] ELSE << >>

\* a request: the headers that are present, and the raw body
Request(sig, key, authz, event, delivery, body) ==
    LET given == [n \in HeaderNames |->
                    CASE n = SIG_HEADER -> sig
                      [] n = KEY_HEADER -> key
                      [] n = AUTHZ_HEADER -> authz
                      [] n = EVENT_HEADER -> event
                      [] n = DELIVERY_HEADER -> delivery]
    IN [headers |-> [n \in {m \in HeaderNames : given[m] # Absent} |-> given[n]],
        body |-> body]

----------------------------------------------------------------------------
(* Credential store: models/app.py and AppAuthManager *)

\* permissions is a list of AppPermission values
App(id, name, secret, key, active) ==
    [id |-> id, name |-> name, owner |-> "owner@example.com",
     permissions |-> <<"receive:webhook">>,
     webhook_secret |-> secret, api_key |-> key, active |-> active]

\* AuthSettings
SECRET_KEY == "change-me-in-production"
TOKEN_EXPIRE_MINUTES == 60
ALGORITHM == "HS256"

\* hmac.new(secret.encode(), body, hashlib.sha256).hexdigest(): a lowercase
\* hex string determined by (secret, body); distinct pairs give distinct
\* digests (collision resistance of HMAC-SHA256)
hexdigest(secret, body) == <<"hmac-sha256">> \o secret \o <<body>>

\* hmac.compare_digest on two str: TypeError unless both are ASCII
compare_digest(a, b) ==
    IF ~isascii(a) \/ ~isascii(b) THEN "TypeError"
    ELSE IF a = b THEN "True" ELSE "False"

----------------------------------------------------------------------------
(* Signed tokens: jose.jwt *)

NoClaim == "<no-claim>"

\* the exp claim is carried as decimal text inside the token
ExpRange == (0 - 1)..((MaxTicks + 2) * (TOKEN_EXPIRE_MINUTES + 1))

int(text) == CHOOSE t \in ExpRange : ToString(t) = text

\* jwt.encode(claims, key, algorithm): header.payload.signature, with the
\* claims sub, exp, name and permissions
jwt_encode(sub, exp, name, permissions, key, algorithm) ==
    <<"jwt", algorithm, key, sub, exp, name>> \o permissions

IsJwt(t) == Len(t) >= 6 /\ t[1] = "jwt"

\* jwt.decode(token, key, algorithms=[algorithm]) at time t: "JWTError" for a
\* malformed token, an algorithm outside the allowed list, a signature made
\* with another key, or a past exp claim (ExpiredSignatureError is a
\* JWTError).  A token without an exp claim is not checked for expiry
\* (require_exp defaults to False).  Otherwise the claims.
JWTError == [error |-> TRUE, sub |-> NoClaim, exp |-> NoClaim]

jwt_decode(t, key, algorithm, clock) ==
    IF ~IsJwt(t) THEN JWTError
    ELSE IF t[2] # algorithm THEN JWTError
    ELSE IF t[3] # key THEN JWTError
    ELSE IF t[5] # NoClaim /\ int(t[5]) < clock THEN JWTError
    ELSE [error |-> FALSE, sub |-> t[4], exp |-> t[5]]

----------------------------------------------------------------------------
(* Authentication gate: AppAuthManager.authenticate_app *)

\* outcomes of an authentication: the app, None, or an exception that
\* propagates to the caller
ReturnApp(app, scheme) == [kind |-> "app", id |-> app.id, scheme |-> scheme]
ReturnNone(scheme) == [kind |-> "None", id |-> "", scheme |-> scheme]
Raise(exc, scheme) == [kind |-> exc, id |-> "", scheme |-> scheme]

\* variant: the 'sha256=' prefix test is skipped and a bare digest is compared
_authenticate_webhook_signature_no_prefix(app, request) ==
    LET signature_header == headers_get(request, SIG_HEADER)
        signature == IF startswith(signature_header, "sha256=")
                     THEN slice7(signature_header) ELSE signature_header
        same == compare_digest(signature, hexdigest(app.webhook_secret, request.body))
    IN IF signature_header = << >> THEN ReturnNone("signature")
       ELSE IF same = "TypeError" THEN Raise("TypeError", "signature")
       ELSE IF same = "False" THEN ReturnNone("signature")
       ELSE ReturnApp(app, "signature")

_authenticate_webhook_signature(app, request) ==
    LET signature_header == headers_get(request, SIG_HEADER)
        signature == slice7(signature_header)
        expected_signature == hexdigest(app.webhook_secret, request.body)
        same == compare_digest(signature, expected_signature)
    IN IF signature_header = << >> THEN ReturnNone("signature")
       ELSE IF ~startswith(signature_header, "sha256=") THEN ReturnNone("signature")
       ELSE IF same = "TypeError" THEN Raise("TypeError", "signature")
       ELSE IF same = "False" THEN ReturnNone("signature")
       ELSE ReturnApp(app, "signature")

\* variant: the emptiness test on the presented key is missing
_authenticate_api_key_no_empty_test(app, request) ==
    LET api_key == headers_get(request, KEY_HEADER)
    IN IF api_key # app.api_key THEN ReturnNone("api_key")
       ELSE ReturnApp(app, "api_key")

_authenticate_api_key(app, request) ==
    LET api_key == headers_get(request, KEY_HEADER)
    IN IF api_key = << >> THEN ReturnNone("api_key")
       ELSE IF api_key # app.api_key THEN ReturnNone("api_key")
       ELSE ReturnApp(app, "api_key")

\* variant: the subject claim is not compared with the app id
_authenticate_jwt_no_subject_test(app, request, clock) ==
    LET auth_header == headers_get(request, AUTHZ_HEADER)
        payload == jwt_decode(slice7(auth_header), SECRET_KEY, ALGORITHM, clock)
    IN IF auth_header = << >> THEN ReturnNone("jwt")
       ELSE IF ~startswith(auth_header, "Bearer ") THEN ReturnNone("jwt")
       ELSE IF payload.error THEN ReturnNone("jwt")
       ELSE ReturnApp(app, "jwt")

_authenticate_jwt(app, request, clock) ==
    LET auth_header == headers_get(request, AUTHZ_HEADER)
        payload == jwt_decode(slice7(auth_header), SECRET_KEY, ALGORITHM, clock)
    IN IF auth_header = << >> THEN ReturnNone("jwt")
       ELSE IF ~startswith(auth_header, "Bearer ") THEN ReturnNone("jwt")
       ELSE IF payload.error THEN ReturnNone("jwt")
       ELSE IF payload.sub # app.id THEN ReturnNone("jwt")
       ELSE ReturnApp(app, "jwt")

\* variant: the API key is looked at before the signature
authenticate_app_key_first(store, app_id, request, clock) ==
    IF app_id \notin DOMAIN store THEN ReturnNone("none")
    ELSE IF KEY_HEADER \in DOMAIN request.headers
         THEN _authenticate_api_key(store[app_id], request)
    ELSE IF SIG_HEADER \in DOMAIN request.headers
         THEN _authenticate_webhook_signature(store[app_id], request)
    ELSE IF AUTHZ_HEADER \in DOMAIN request.headers
         THEN _authenticate_jwt(store[app_id], request, clock)
    ELSE ReturnNone("none")

\* variant: the scheme is selected before the app is looked up
authenticate_app_scheme_first(store, app_id, request, clock) ==
    LET known == app_id \in DOMAIN store
    IN IF SIG_HEADER \in DOMAIN request.headers
       THEN IF known THEN _authenticate_webhook_signature(store[app_id], request)
            ELSE ReturnNone("signature")
       ELSE IF KEY_HEADER \in DOMAIN request.headers
       THEN IF known THEN _authenticate_api_key(store[app_id], request)
            ELSE ReturnNone("api_key")
       ELSE IF AUTHZ_HEADER \in DOMAIN request.headers
       THEN IF known THEN _authenticate_jwt(store[app_id], request, clock)
            ELSE ReturnNone("jwt")
       ELSE ReturnNone("none")

\* variant: a request without any recognised header is let through
authenticate_app_default_allow(store, app_id, request, clock) ==
    IF app_id \notin DOMAIN store THEN ReturnNone("none")
    ELSE IF SIG_HEADER \in DOMAIN request.headers
         THEN _authenticate_webhook_signature(store[app_id], request)
    ELSE IF KEY_HEADER \in DOMAIN request.headers
         THEN _authenticate_api_key(store[app_id], request)
    ELSE IF AUTHZ_HEADER \in DOMAIN request.headers
         THEN _authenticate_jwt(store[app_id], request, clock)
    ELSE ReturnApp(store[app_id], "none")

\* variant: an application that is not active is turned away
authenticate_app_active_only(store, app_id, request, clock) ==
    IF app_id \notin DOMAIN store THEN ReturnNone("none")
    ELSE IF ~store[app_id].active THEN ReturnNone("none")
    ELSE IF SIG_HEADER \in DOMAIN request.headers
         THEN _authenticate_webhook_signature(store[app_id], request)
    ELSE IF KEY_HEADER \in DOMAIN request.headers
         THEN _authenticate_api_key(store[app_id], request)
    ELSE IF AUTHZ_HEADER \in DOMAIN request.headers
         THEN _authenticate_jwt(store[app_id], request, clock)
    ELSE ReturnNone("none")

authenticate_app(store, app_id, request, clock) ==
    IF app_id \notin DOMAIN store THEN ReturnNone("none")
    ELSE IF SIG_HEADER \in DOMAIN request.headers
         THEN _authenticate_webhook_signature(store[app_id], request)
    ELSE IF KEY_HEADER \in DOMAIN request.headers
         THEN _authenticate_api_key(store[app_id], request)
    ELSE IF AUTHZ_HEADER \in DOMAIN request.headers
         THEN _authenticate_jwt(store[app_id], request, clock)
    ELSE ReturnNone("none")

----------------------------------------------------------------------------
(* Inputs of the authentication gate *)

AppIds == {"a1", "a2"}

Secret1 == <<"s1">>
Secret2 == <<"s2">>
Key1 == <<"k1">>
Key2 == <<"k2">>

\* the App objects offered to register_app: two apps with their own secret
\* and key, and a second record for "a2" that shares the secret of "a1",
\* has an empty API key and is inactive
AppCandidates ==
    {App("a1", "App One", Secret1, Key1, TRUE),
     App("a2", "App Two", Secret2, Key2, TRUE),
     App("a2", "App Two", Secret1, << >>, FALSE)}

BODY_EMPTY_OBJECT == "{}"
BODY_PING == "{\"zen\": \"Keep it simple\"}"

AuthBodies == {BODY_EMPTY_OBJECT, BODY_PING}

TICK_MINUTES == TOKEN_EXPIRE_MINUTES + 1

Idle == [op |-> "idle"]

\* values of the X-Hub-Signature-256 header
SigChoices ==
    {Absent, << >>, <<"sha256=">>, <<"sha256=", NonAscii>>,
     hexdigest(Secret1, BODY_EMPTY_OBJECT)}
    \cup {<<"sha256=">> \o hexdigest(s, b) : s \in {Secret1, Secret2}, b \in AuthBodies}

\* values of the X-App-Key header
KeyChoices == {Absent, << >>, Key1, Key2, Key1 \o <<"x">>}

\* tokens a client may present at time clock: signed with the service key
\* for every subject and expiry, signed with another key, or unsigned
TokenChoices(clock) ==
    {jwt_encode(sub, exp, "n", << >>, SECRET_KEY, ALGORITHM) :
        sub \in AppIds \cup {NoClaim},
        exp \in {NoClaim, ToString(clock - 1), ToString(clock),
                 ToString(clock + TOKEN_EXPIRE_MINUTES)}}
    \cup {jwt_encode(sub, ToString(clock + TOKEN_EXPIRE_MINUTES), "n", << >>,
                     "attacker-key", ALGORITHM) : sub \in AppIds}
    \cup {jwt_encode("a1", ToString(clock + TOKEN_EXPIRE_MINUTES), "n", << >>,
                     SECRET_KEY, "none")}

\* values of the Authorization header
AuthzChoices(clock, issued) ==
    {Absent, << >>, <<"Basic ">> \o Key1, <<"Bearer ">>, <<"Bearer ", "garbage">>}
    \cup {<<"Bearer ">> \o t : t \in TokenChoices(clock)}
    \cup (IF issued = << >> THEN {} ELSE {<<"Bearer ">> \o issued, <<"bearer ">> \o issued})

----------------------------------------------------------------------------
(* Operations of AppAuthManager and the clock *)

Init ==
    /\ apps = << >>
    /\ now = 0
    /\ token = << >>
    /\ producer = "None"
    /\ rawTopic = << >>
    /\ validatedTopic = << >>
    /\ call = Idle
    /\ handlers = << >>
    /\ consumer = 0
    /\ running = FALSE
    /\ clients = [slot \in 1..MaxStarts |-> Free]
    /\ loops = << >>
    /\ pending = {}
    /\ broker = [topic \in Topics |-> << >>]

\* variant: register_app stores the record whether or not the id is taken
RegisterApp_overwrites(app) ==
    /\ call = Idle
    /\ call' = [op |-> "register_app", app |-> app, status |-> 200]
    /\ apps' = [id \in DOMAIN apps \cup {app.id} |-> IF id = app.id THEN app ELSE apps[id]]
    /\ UNCHANGED <<now, token, producer, rawTopic, validatedTopic>>
    /\ UNCHANGED subscriberVars

\* register_app: HTTPException(400) when the id is already registered
RegisterApp(app) ==
    /\ call = Idle
    /\ IF app.id \in DOMAIN apps
       THEN /\ call' = [op |-> "register_app", app |-> app, status |-> 400]
            /\ apps' = apps
       ELSE /\ call' = [op |-> "register_app", app |-> app, status |-> 200]
            /\ apps' = apps @@ (app.id :> app)
    /\ UNCHANGED <<now, token, producer, rawTopic, validatedTopic>>
    /\ UNCHANGED subscriberVars

\* create_access_token: HTTPException(404) for an unknown app
CreateAccessToken(app_id) ==
    /\ call = Idle
    /\ IF app_id \notin DOMAIN apps
       THEN /\ call' = [op |-> "create_access_token", app_id |-> app_id, status |-> 404]
            /\ token' = token
       ELSE /\ call' = [op |-> "create_access_token", app_id |-> app_id, status |-> 200]
            /\ token' = jwt_encode(apps[app_id].id,
                                   ToString(now + TOKEN_EXPIRE_MINUTES),
                                   apps[app_id].name, apps[app_id].permissions,
                                   SECRET_KEY, ALGORITHM)
    /\ UNCHANGED <<apps, now, producer, rawTopic, validatedTopic>>
    /\ UNCHANGED subscriberVars

AuthenticateApp(app_id, request) ==
    /\ call = Idle
    /\ call' = [op |-> "authenticate_app", app_id |-> app_id, request |-> request,
                result |-> authenticate_app(apps, app_id, request, now)]
    /\ UNCHANGED <<apps, now, token, producer, rawTopic, validatedTopic>>
    /\ UNCHANGED subscriberVars

\* time passes
Tick ==
    /\ call = Idle
    /\ now < MaxTicks * TICK_MINUTES
    /\ now' = now + TICK_MINUTES
    /\ UNCHANGED <<apps, token, producer, rawTopic, validatedTopic, call>>
    /\ UNCHANGED subscriberVars

\* the caller has taken the outcome of the operation
Return ==
    /\ call # Idle
    /\ call' = Idle
    /\ UNCHANGED <<apps, now, token, producer, rawTopic, validatedTopic>>
    /\ UNCHANGED subscriberVars

NextAuth ==
    \/ \E app \in AppCandidates : RegisterApp(app)
    \/ \E app_id \in AppIds : CreateAccessToken(app_id)
    \/ /\ call = Idle
       /\ \E app_id \in AppIds, sig \in SigChoices, key \in KeyChoices,
             authz \in AuthzChoices(now, token), body \in AuthBodies :
            AuthenticateApp(app_id, Request(sig, key, authz, Absent, Absent, body))
    \/ Tick
    \/ Return

SpecAuth == Init /\ [][NextAuth]_vars

----------------------------------------------------------------------------
(* Payloads: json.loads and the pydantic envelope models *)

BODY_INVALID_UTF8 == "<0xff>"
BODY_NOT_JSON == "not json"
BODY_ARRAY == "[]"
BODY_PR_OPENED == "{\"action\": \"opened\", \"pull_request\": {..}, \"repository\": {..}, \"sender\": {..}}"
BODY_PR_SYNCHRONIZE == "{\"action\": \"synchronize\", \"pull_request\": {..}}"
BODY_PR_BOGUS == "{\"action\": \"bogus\", \"pull_request\": {..}}"
BODY_PR_NO_OBJECT == "{\"action\": \"opened\"}"
BODY_PR_NULL_OBJECT == "{\"action\": \"opened\", \"pull_request\": null}"
BODY_PR_NO_ACTION == "{\"pull_request\": {..}}"

Bodies ==
    {BODY_INVALID_UTF8, BODY_NOT_JSON, BODY_ARRAY, BODY_EMPTY_OBJECT, BODY_PING,
     BODY_PR_OPENED, BODY_PR_SYNCHRONIZE, BODY_PR_BOGUS, BODY_PR_NO_OBJECT,
     BODY_PR_NULL_OBJECT, BODY_PR_NO_ACTION}

\* JSON values
JStr(v) == [t |-> "str", v |-> v]
JNull == [t |-> "null", v |-> ""]
JObject(v) == [t |-> "object", v |-> v]
JDict(items) == [t |-> "dict", items |-> items]
JList == [t |-> "list", items |-> << >>]

\* json.loads(body): the value, a JSONDecodeError, or a UnicodeDecodeError
\* (a ValueError that is not a JSONDecodeError) for bytes that are not UTF-8
json_loads(body) ==
    CASE body = BODY_INVALID_UTF8 -> [error |-> "UnicodeDecodeError", value |-> JList]
      [] body = BODY_NOT_JSON -> [error |-> "JSONDecodeError", value |-> JList]
      [] body = BODY_ARRAY -> [error |-> "None", value |-> JList]
      [] body = BODY_EMPTY_OBJECT -> [error |-> "None", value |-> JDict(<< >>)]
      [] body = BODY_PING ->
            [error |-> "None", value |-> JDict([zen |-> JStr("Keep it simple")])]
      [] body = BODY_PR_OPENED ->
            [error |-> "None",
             value |-> JDict([action |-> JStr("opened"), pull_request |-> JObject("pr"),
                              repository |-> JObject("repo"), sender |-> JObject("user")])]
      [] body = BODY_PR_SYNCHRONIZE ->
            [error |-> "None",
             value |-> JDict([action |-> JStr("synchronize"), pull_request |-> JObject("pr")])]
      [] body = BODY_PR_BOGUS ->
            [error |-> "None",
             value |-> JDict([action |-> JStr("bogus"), pull_request |-> JObject("pr")])]
      [] body = BODY_PR_NO_OBJECT ->
            [error |-> "None", value |-> JDict([action |-> JStr("opened")])]
      [] body = BODY_PR_NULL_OBJECT ->
            [error |-> "None",
             value |-> JDict([action |-> JStr("opened"), pull_request |-> JNull])]
      [] body = BODY_PR_NO_ACTION ->
            [error |-> "None", value |-> JDict([pull_request |-> JObject("pr")])]

\* payload.get(key, default) on a dict
payload_get(payload, key, default) ==
    IF key \in DOMAIN payload.items THEN payload.items[key] ELSE default

\* datetime.utcnow().isoformat() is a str, datetime.utcnow() a datetime
isoformat(clock) == [type |-> "str", at |-> clock]
datetime(clock) == [type |-> "datetime", at |-> clock]

GITHUB == "github"
EVENT_TYPE_PING == "ping"
EVENT_TYPE_OTHER == "other"

\* event_type_map of _handle_pull_request_event
event_type_map ==
    [opened |-> "pull_request.opened",
     closed |-> "pull_request.closed",
     reopened |-> "pull_request.reopened",
     edited |-> "pull_request.edited",
     assigned |-> "pull_request.assigned",
     unassigned |-> "pull_request.unassigned",
     review_requested |-> "pull_request.review_requested",
     review_request_removed |-> "pull_request.review_request_removed",
     labeled |-> "pull_request.labeled",
     unlabeled |-> "pull_request.unlabeled",
     synchronize |-> "pull_request.synchronized"]

\* event_type_map.get(action, WebhookEventType.OTHER)
event_type_map_get(action) ==
    IF action.t = "str" /\ action.v \in DOMAIN event_type_map
    THEN event_type_map[action.v] ELSE EVENT_TYPE_OTHER

\* the values event_type_map can give
PullRequestTypes == {event_type_map[a] : a \in DOMAIN event_type_map}

\* the closed taxonomy: the values of the enum WebhookEventType
WebhookEventType ==
    PullRequestTypes
    \cup {"pull_request_review.submitted", "pull_request_review.edited",
          "pull_request_review.dismissed",
          "pull_request_review_comment.created", "pull_request_review_comment.edited",
          "pull_request_review_comment.deleted",
          "issue.opened", "issue.closed", "issue.reopened", "issue.edited",
          "issue.assigned", "issue.unassigned", "issue.labeled", "issue.unlabeled",
          "issue_comment.created", "issue_comment.edited", "issue_comment.deleted",
          "push",
          "repository.created", "repository.deleted", "repository.archived",
          "repository.unarchived", "repository.edited", "repository.renamed",
          "repository.transferred", "repository.publicized", "repository.privatized",
          EVENT_TYPE_PING, EVENT_TYPE_OTHER}

\* pydantic field types: Optional[Dict[str, Any]], Dict[str, Any] and str
valid_optional_dict(v) == v.t \in {"null", "object"}

\* variant: the pull_request field declared Optional
valid_dict_or_null(v) == v.t \in {"null", "object"}

valid_dict(v) == v.t = "object"
valid_str(v) == v.t = "str"

\* WebhookPayload(...).dict(): the timestamp stays a datetime object
WebhookPayload(event_type, delivery_id, app_id, payload, clock) ==
    [variant |-> "WebhookPayload",
     platform |-> GITHUB, event_type |-> event_type, delivery_id |-> delivery_id,
     timestamp |-> datetime(clock), app_id |-> app_id, raw_payload |-> payload,
     repository |-> payload_get(payload, "repository", JNull),
     sender |-> payload_get(payload, "sender", JNull),
     pull_request |-> JNull, action |-> JNull]

\* PullRequestWebhookPayload(...).dict()
PullRequestWebhookPayload(event_type, delivery_id, app_id, payload, clock) ==
    [variant |-> "PullRequestWebhookPayload",
     platform |-> GITHUB, event_type |-> event_type, delivery_id |-> delivery_id,
     timestamp |-> datetime(clock), app_id |-> app_id, raw_payload |-> payload,
     repository |-> payload_get(payload, "repository", JNull),
     sender |-> payload_get(payload, "sender", JNull),
     pull_request |-> payload_get(payload, "pull_request", JObject("{}")),
     action |-> payload_get(payload, "action", JStr(""))]

\* the message of the raw topic
RawMessage(event_type, delivery_id, app_id, payload, headers, clock) ==
    [variant |-> "raw",
     platform |-> GITHUB, event_type |-> event_type, delivery_id |-> delivery_id,
     timestamp |-> isoformat(clock), app_id |-> app_id, payload |-> payload,
     headers |-> headers]

----------------------------------------------------------------------------
(* Channel publisher: KafkaProducer *)

RAW_TOPIC == "webhook.github.raw"
VALIDATED_TOPIC == "webhook.github.validated"

\* json.dumps accepts str, dict, list, None and str-valued enums, and raises
\* TypeError on a datetime
json_serializable(message) == message.timestamp.type # "datetime"

\* json.dumps(message).encode("utf-8")
json_dumps(message) == <<"json", message>>

\* the record of one send_message call: its arguments, whether the broker
\* acknowledges the write (producer.send_and_wait completes) or the write
\* fails (it raises), the outcome (the returned bool, or the exception raised
\* to the caller) and the records the broker has persisted
Send(topic, message, key, ack, outcome) ==
    [topic |-> topic, message |-> message, key |-> key, ack |-> ack,
     outcome |-> outcome,
     published |-> IF outcome = "True"
                   THEN << [key |-> key, value |-> json_dumps(message)] >>
                   ELSE << >>]

\* variant: the result of the broker write is not awaited
send_message_fire_and_forget(prod, topic, message, key, ack) ==
    IF prod = "None" THEN Send(topic, message, key, ack, "RuntimeError")
    ELSE IF ~json_serializable(message) THEN Send(topic, message, key, ack, "TypeError")
    ELSE [Send(topic, message, key, ack, "True") EXCEPT
            !.published = IF ack THEN @ ELSE << >>]

send_message(prod, topic, message, key, ack) ==
    IF prod = "None" THEN Send(topic, message, key, ack, "RuntimeError")
    ELSE IF ~json_serializable(message) THEN Send(topic, message, key, ack, "TypeError")
    ELSE IF ack THEN Send(topic, message, key, ack, "True")
    ELSE Send(topic, message, key, ack, "False")

send_github_raw_event(prod, message, key, ack) ==
    send_message(prod, RAW_TOPIC, message, key, ack)

\* variant: the validated envelope is published without a key
send_github_validated_event_unkeyed(prod, message, key, ack) ==
    send_message(prod, VALIDATED_TOPIC, message, << >>, ack)

send_github_validated_event(prod, message, key, ack) ==
    send_message(prod, VALIDATED_TOPIC, message, key, ack)

Raised(send) == send.outcome \notin {"True", "False"}

----------------------------------------------------------------------------
(* GitHub handler: GitHubWebhookHandler *)

\* the HTTP response, the send_message calls made and what they persisted
Response(status, message, sends) ==
    [status |-> status, message |-> message, sends |-> sends,
     raw |-> IF sends = << >> THEN << >> ELSE sends[1].published,
     validated |-> IF Len(sends) < 2 THEN << >> ELSE sends[2].published]

\* the except clause of handle_webhook
ProcessingError(sends) == Response(500, "Error processing webhook", sends)

\* variant: the envelope is published ahead of the raw message
_handle_ping_event_validated_first(app, payload, delivery_id, prod, ack, clock, sent) ==
    IF payload.t # "dict" THEN ProcessingError(sent)
    ELSE IF ~valid_optional_dict(payload_get(payload, "repository", JNull))
            \/ ~valid_optional_dict(payload_get(payload, "sender", JNull))
    THEN ProcessingError(sent)
    ELSE LET webhook_payload == WebhookPayload(EVENT_TYPE_PING, delivery_id, app.id, payload, clock)
             send == send_github_validated_event(prod, webhook_payload, delivery_id, ack)
         IN IF Raised(send) THEN ProcessingError(<<send>> \o sent)
            ELSE Response(200, "Pong!", <<send>> \o sent)

_handle_ping_event(app, payload, delivery_id, prod, ack, clock, sent) ==
    IF payload.t # "dict" THEN ProcessingError(sent)
    ELSE IF ~valid_optional_dict(payload_get(payload, "repository", JNull))
            \/ ~valid_optional_dict(payload_get(payload, "sender", JNull))
    THEN ProcessingError(sent)
    ELSE LET webhook_payload == WebhookPayload(EVENT_TYPE_PING, delivery_id, app.id, payload, clock)
             send == send_github_validated_event(prod, webhook_payload, delivery_id, ack)
         IN IF Raised(send) THEN ProcessingError(sent \o <<send>>)
            ELSE Response(200, "Pong!", sent \o <<send>>)

_handle_pull_request_event(app, payload, delivery_id, prod, ack, clock, sent) ==
    IF payload.t # "dict" THEN ProcessingError(sent)
    ELSE LET action == payload_get(payload, "action", JStr(""))
             event_type == event_type_map_get(action)
             webhook_payload == PullRequestWebhookPayload(event_type, delivery_id,
                                                          app.id, payload, clock)
             send == send_github_validated_event(prod, webhook_payload, delivery_id, ack)
         IN IF \/ ~valid_optional_dict(webhook_payload.repository)
               \/ ~valid_optional_dict(webhook_payload.sender)
               \/ ~valid_dict(webhook_payload.pull_request)
               \/ ~valid_str(webhook_payload.action)
            THEN ProcessingError(sent)
            ELSE IF Raised(send) THEN ProcessingError(sent \o <<send>>)
            ELSE Response(200, "Pull request event processed", sent \o <<send>>)

\* the handlers that only acknowledge
StubMessages ==
    [issues |-> "Issue event processed",
     issue_comment |-> "Issue comment event processed",
     pull_request_review |-> "Pull request review event processed",
     pull_request_review_comment |-> "Pull request review comment event processed",
     push |-> "Push event processed"]

\* variant: an event type without a handler is refused
handle_webhook_reject_unsupported(app, request, uuid4, prod, ack_raw, ack_validated, clock) ==
    LET event_type == headers_get(request, EVENT_HEADER)
        header_id == headers_get(request, DELIVERY_HEADER)
        delivery_id == IF header_id = << >> THEN uuid4 ELSE header_id
        loaded == json_loads(request.body)
        payload == loaded.value
        raw == send_github_raw_event(prod,
                   RawMessage(event_type, delivery_id, app.id, payload,
                              request.headers, clock),
                   delivery_id, ack_raw)
    IN IF event_type = << >> THEN Response(400, "Missing event type", << >>)
       ELSE IF loaded.error = "JSONDecodeError"
       THEN Response(400, "Invalid JSON payload", << >>)
       ELSE IF loaded.error # "None"
       THEN Response(500, "Internal Server Error", << >>)
       ELSE IF Raised(raw) THEN Response(500, "Internal Server Error", <<raw>>)
       ELSE IF event_type = <<"ping">>
       THEN _handle_ping_event(app, payload, delivery_id, prod, ack_validated,
                               clock, <<raw>>)
       ELSE IF event_type = <<"pull_request">>
       THEN _handle_pull_request_event(app, payload, delivery_id, prod,
                                       ack_validated, clock, <<raw>>)
       ELSE IF Len(event_type) = 1 /\ event_type[1] \in DOMAIN StubMessages
       THEN Response(200, StubMessages[event_type[1]], <<raw>>)
       ELSE Response(400, "Event type not supported", <<raw>>)

handle_webhook(app, request, uuid4, prod, ack_raw, ack_validated, clock) ==
    LET event_type == headers_get(request, EVENT_HEADER)
        header_id == headers_get(request, DELIVERY_HEADER)
        delivery_id == IF header_id = << >> THEN uuid4 ELSE header_id
        loaded == json_loads(request.body)
        payload == loaded.value
        raw == send_github_raw_event(prod,
                   RawMessage(event_type, delivery_id, app.id, payload,
                              request.headers, clock),
                   delivery_id, ack_raw)
    IN IF event_type = << >> THEN Response(400, "Missing event type", << >>)
       ELSE IF loaded.error = "JSONDecodeError"
       THEN Response(400, "Invalid JSON payload", << >>)
       ELSE IF loaded.error # "None"
       THEN Response(500, "Internal Server Error", << >>)
       ELSE IF Raised(raw) THEN Response(500, "Internal Server Error", <<raw>>)
       ELSE IF event_type = <<"ping">>
       THEN _handle_ping_event(app, payload, delivery_id, prod, ack_validated,
                               clock, <<raw>>)
       ELSE IF event_type = <<"pull_request">>
       THEN _handle_pull_request_event(app, payload, delivery_id, prod,
                                       ack_validated, clock, <<raw>>)
       ELSE IF Len(event_type) = 1 /\ event_type[1] \in DOMAIN StubMessages
       THEN Response(200, StubMessages[event_type[1]], <<raw>>)
       ELSE Response(200, "Event type not supported", <<raw>>)

\* POST /webhooks/github/{app_id}
github_webhook(store, app_id, request, uuid4, prod, ack_raw, ack_validated, clock) ==
    LET app == authenticate_app(store, app_id, request, clock)
    IN IF app.kind = "None" THEN Response(401, "Invalid app credentials", << >>)
       ELSE IF app.kind # "app" THEN Response(500, "Internal Server Error", << >>)
       ELSE handle_webhook(store[app.id], request, uuid4, prod,
                           ack_raw, ack_validated, clock)

----------------------------------------------------------------------------
(* The webhook service: producer lifecycle and the GitHub endpoint *)

\* KafkaProducer.start: a no-op when the producer exists
ProducerStart ==
    /\ call = Idle
    /\ producer' = "started"
    /\ UNCHANGED <<apps, now, token, rawTopic, validatedTopic, call>>
    /\ UNCHANGED subscriberVars

\* KafkaProducer.stop: a no-op when there is no producer
ProducerStop ==
    /\ call = Idle
    /\ producer' = "None"
    /\ UNCHANGED <<apps, now, token, rawTopic, validatedTopic, call>>
    /\ UNCHANGED subscriberVars

\* one request to POST /webhooks/github/{app_id}, from authentication to the
\* response, with the records the broker persisted for it
GithubWebhook(app_id, request, uuid4, ack_raw, ack_validated) ==
    LET response == github_webhook(apps, app_id, request, uuid4, producer,
                                   ack_raw, ack_validated, now)
    IN /\ call' = [op |-> "github_webhook", app_id |-> app_id, request |-> request,
                   auth |-> authenticate_app(apps, app_id, request, now),
                   response |-> response]
       /\ rawTopic' = rawTopic \o response.raw
       /\ validatedTopic' = validatedTopic \o response.validated
       /\ UNCHANGED <<apps, now, token, producer>>
       /\ UNCHANGED subscriberVars

Signed(secret, body) == <<"sha256=">> \o hexdigest(secret, body)

Bearer(sub, exp) == <<"Bearer ">> \o jwt_encode(sub, exp, "n", << >>, SECRET_KEY, ALGORITHM)

\* the authentication headers <<signature, API key, Authorization>> sent
\* with a body: none, each scheme with good and bad credentials, and a bad
\* signature together with a good key
WebAuthChoices(body, clock) ==
    {<<Absent, Absent, Absent>>,
     <<Signed(Secret1, body), Absent, Absent>>,
     <<Signed(Secret2, body), Absent, Absent>>,
     <<Signed(Secret1, BODY_NOT_JSON), Absent, Absent>>,
     <<<<"sha256=", NonAscii>>, Absent, Absent>>,
     <<Absent, Key1, Absent>>,
     <<Absent, Key2, Absent>>,
     <<Absent, << >>, Absent>>,
     <<Signed(Secret2, body), Key1, Absent>>,
     <<Absent, Absent, Bearer("a1", ToString(clock + TOKEN_EXPIRE_MINUTES))>>,
     <<Absent, Absent, Bearer("a1", ToString(clock - 1))>>,
     <<Absent, Absent, <<"Bearer ", "garbage">> >>}

\* values of the X-GitHub-Event header
EventChoices ==
    {Absent, << >>, <<"ping">>, <<"pull_request">>, <<"issues">>,
     <<"issue_comment">>, <<"pull_request_review">>,
     <<"pull_request_review_comment">>, <<"push">>, <<"fork">>}

Delivery1 == <<"d1">>

\* values of the X-GitHub-Delivery header
DeliveryChoices == {Absent, Delivery1}

\* str(uuid.uuid4())
Uuid == <<"uuid4">>

\* requests that vary the credentials, with a well-formed event
CredentialRequests(clock) ==
    {Request(auth[1], auth[2], auth[3], <<"issues">>, Delivery1, BODY_EMPTY_OBJECT) :
        auth \in WebAuthChoices(BODY_EMPTY_OBJECT, clock)}

\* requests that vary the event, the delivery id and the body, carrying the
\* API key of app "a1"
EventRequests ==
    {Request(Absent, Key1, Absent, event, delivery, body) :
        event \in EventChoices, delivery \in DeliveryChoices, body \in Bodies}

Next ==
    \/ \E app \in AppCandidates : RegisterApp(app)
    \/ ProducerStart
    \/ ProducerStop
    \/ /\ call = Idle
       /\ Len(rawTopic) < MaxRaw
       /\ \E app_id \in AppIds, ack_raw \in BOOLEAN, ack_validated \in BOOLEAN :
            \E request \in CredentialRequests(now) \cup EventRequests :
                GithubWebhook(app_id, request, Uuid, ack_raw, ack_validated)
    \/ Return

Spec == Init /\ [][Next]_vars

----------------------------------------------------------------------------
(* Properties of the authentication gate (SpecAuth) *)

\* an authenticate_app call has just been made
Authenticated == call # Idle /\ call.op = "authenticate_app"

Has(name) == name \in DOMAIN call.request.headers

\* the request of the call with the headers in names taken away
Without(names) ==
    [headers |-> [n \in (DOMAIN call.request.headers) \ names |-> call.request.headers[n]],
     body |-> call.request.body]

Accepted == call.result.kind = "app" /\ call.result.id = call.app_id

\* C1: for a registered app the first header present in the order signature,
\* API key, bearer token decides alone: with a signature header the outcome
\* is that of the signature scheme and equals the outcome of the same request
\* stripped of its API-key and Authorization headers; with an API-key header
\* and no signature header the outcome is that of the API-key scheme and
\* equals the outcome of the request stripped of its Authorization header.
C1_FirstHeaderDecides ==
    (Authenticated /\ call.app_id \in DOMAIN apps) =>
        /\ Has(SIG_HEADER) =>
             /\ call.result.scheme = "signature"
             /\ call.result = authenticate_app(apps, call.app_id,
                                  Without({KEY_HEADER, AUTHZ_HEADER}), now)
        /\ (Has(KEY_HEADER) /\ ~Has(SIG_HEADER)) =>
             /\ call.result.scheme = "api_key"
             /\ call.result = authenticate_app(apps, call.app_id,
                                  Without({AUTHZ_HEADER}), now)

\* C1 witness: a wrong signature is rejected although the request also
\* carries the app's correct API key and a valid bearer token for it
C1_Witness ==
    /\ Authenticated /\ call.app_id \in DOMAIN apps
    /\ Has(SIG_HEADER) /\ Has(KEY_HEADER) /\ Has(AUTHZ_HEADER)
    /\ call.request.headers[KEY_HEADER] = apps[call.app_id].api_key
    /\ call.request.headers[KEY_HEADER] # << >>
    /\ _authenticate_jwt(apps[call.app_id], call.request, now).kind = "app"
    /\ call.result.kind = "None"

\* C2: for an app id that is not in the credential store authenticate_app
\* returns None whatever the headers, and no scheme is attempted.
C2_UnknownAppFails ==
    (Authenticated /\ call.app_id \notin DOMAIN apps) =>
        /\ call.result.kind = "None"
        /\ call.result.scheme = "none"

\* C2 witness: an unknown app id presented with a well-formed signature
\* while another app is registered
C2_Witness ==
    /\ Authenticated /\ call.app_id \notin DOMAIN apps
    /\ apps # << >>
    /\ Has(SIG_HEADER) /\ startswith(call.request.headers[SIG_HEADER], "sha256=")
    /\ call.result.kind = "None"

\* C3: a request with none of the three authentication headers fails,
\* whether or not the app id is registered.
C3_NoHeaderFails ==
    (Authenticated /\ ~Has(SIG_HEADER) /\ ~Has(KEY_HEADER) /\ ~Has(AUTHZ_HEADER)) =>
        call.result.kind = "None"

\* C3 witness: a registered app, no authentication header, rejected
C3_Witness ==
    /\ Authenticated /\ call.app_id \in DOMAIN apps
    /\ ~Has(SIG_HEADER) /\ ~Has(KEY_HEADER) /\ ~Has(AUTHZ_HEADER)
    /\ call.result.kind = "None"

\* the signature header is a digest of body b under secret s, prefixed
SignedWith(s, b) == call.request.headers[SIG_HEADER] = <<"sha256=">> \o hexdigest(s, b)

\* C4: for a registered app and a request with a signature header, the app
\* is returned exactly when the header is 'sha256=' followed by the
\* hex HMAC-SHA256 of the request body under the app's own webhook secret;
\* a header without the prefix, a digest of another body and a digest under
\* a different secret are rejected.
C4_SignatureScheme ==
    (Authenticated /\ call.app_id \in DOMAIN apps /\ Has(SIG_HEADER)) =>
        LET own == apps[call.app_id].webhook_secret
            header == call.request.headers[SIG_HEADER]
        IN /\ Accepted <=> SignedWith(own, call.request.body)
           /\ ~startswith(header, "sha256=") => call.result.kind = "None"
           /\ \A s \in {Secret1, Secret2}, b \in AuthBodies :
                (SignedWith(s, b) /\ (s # own \/ b # call.request.body))
                    => call.result.kind = "None"

\* C4 witness: both apps registered with different secrets, and a request
\* for one of them signed with its own secret over its body is accepted
C4_Witness ==
    /\ Authenticated /\ DOMAIN apps = AppIds
    /\ apps["a1"].webhook_secret # apps["a2"].webhook_secret
    /\ Has(SIG_HEADER)
    /\ SignedWith(apps[call.app_id].webhook_secret, call.request.body)
    /\ Accepted

\* the API-key scheme decides: API-key header, no signature header
KeyCase == Authenticated /\ call.app_id \in DOMAIN apps
           /\ ~Has(SIG_HEADER) /\ Has(KEY_HEADER)

\* C5 as stated: in the API-key case the app is returned exactly when the
\* header equals the API key stored for it.
C5_AsStated ==
    KeyCase => (Accepted <=> call.request.headers[KEY_HEADER] = apps[call.app_id].api_key)

\* C5: in the API-key case the app is returned exactly when the header is
\* not empty and equals the API key stored for it; an empty key and the key
\* of another registered app are rejected.
C5_ApiKeyScheme ==
    KeyCase =>
        LET header == call.request.headers[KEY_HEADER]
        IN /\ Accepted <=> (header # << >> /\ header = apps[call.app_id].api_key)
           /\ header = << >> => call.result.kind = "None"
           /\ \A other \in (DOMAIN apps) \ {call.app_id} :
                (header = apps[other].api_key /\ header # apps[call.app_id].api_key)
                    => call.result.kind = "None"

\* C5 witness: the valid key of another registered app is presented and
\* rejected
C5_Witness ==
    /\ KeyCase
    /\ \E other \in (DOMAIN apps) \ {call.app_id} :
         /\ call.request.headers[KEY_HEADER] = apps[other].api_key
         /\ apps[other].api_key # << >>
         /\ apps[other].api_key # apps[call.app_id].api_key
    /\ call.result.kind = "None"

\* the bearer scheme decides: Authorization header, no signature or API key
BearerCase == Authenticated /\ call.app_id \in DOMAIN apps
              /\ ~Has(SIG_HEADER) /\ ~Has(KEY_HEADER) /\ Has(AUTHZ_HEADER)

\* the token of a 'Bearer <token>' header
Presented == Tail(call.request.headers[AUTHZ_HEADER])

\* the header is 'Bearer <token>' with a token signed by the service key
\* under the configured algorithm
WellSigned ==
    /\ startswith(call.request.headers[AUTHZ_HEADER], "Bearer ")
    /\ IsJwt(Presented)
    /\ Presented[2] = ALGORITHM
    /\ Presented[3] = SECRET_KEY

\* C6 as stated: in the bearer case the app is returned only for a
\* well-signed token whose subject is the app id and which is unexpired; a
\* token issued for another app, an expired token and a token without an
\* expiry never authenticate.
C6_AsStated ==
    (BearerCase /\ Accepted) =>
        /\ WellSigned
        /\ Presented[4] = call.app_id
        /\ Presented[5] # NoClaim
        /\ int(Presented[5]) >= now

\* C6: in the bearer case the app is returned only for a well-signed token
\* whose subject is the app id and whose expiry, when it carries one, has
\* not passed; a token issued by create_access_token for another app and an
\* expired token never authenticate.
C6_BearerScheme ==
    /\ (BearerCase /\ Accepted) =>
          /\ WellSigned
          /\ Presented[4] = call.app_id
          /\ Presented[5] # NoClaim => int(Presented[5]) >= now
    /\ (BearerCase /\ token # << >>
        /\ call.request.headers[AUTHZ_HEADER] = <<"Bearer ">> \o token
        /\ (token[4] # call.app_id \/ int(token[5]) < now))
          => call.result.kind = "None"

\* C6 witness: the token issued by create_access_token for one app is
\* presented, unexpired, for the other registered app and rejected
C6_Witness ==
    /\ BearerCase /\ token # << >>
    /\ call.request.headers[AUTHZ_HEADER] = <<"Bearer ">> \o token
    /\ token[4] # call.app_id
    /\ int(token[5]) >= now
    /\ call.result.kind = "None"

----------------------------------------------------------------------------
(* Properties of the endpoint and of the publisher (Spec) *)

\* a request to the GitHub endpoint has just been answered
Answered == call # Idle /\ call.op = "github_webhook"

Sends == {call.response.sends[i] : i \in 1..Len(call.response.sends)}

NothingPublished == call.response.raw = << >> /\ call.response.validated = << >>

\* C7: every request whose authentication does not yield the app is
\* answered with 401 and nothing is published for it to either topic.
C7_AuthFailureIs401 ==
    (Answered /\ call.auth.kind # "app") =>
        (call.response.status = 401 /\ NothingPublished)

\* C8: an authenticated request whose body is not valid JSON, or that lacks
\* the event-type header, is answered with 400 and nothing is published for
\* it, the raw publish not being attempted.
C8_PayloadErrorIs400 ==
    (Answered /\ call.auth.kind = "app"
     /\ (json_loads(call.request.body).error # "None"
         \/ EVENT_HEADER \notin DOMAIN call.request.headers)) =>
        (call.response.status = 400 /\ call.response.sends = << >>)

\* C9: a request one of whose broker writes failed is answered with 500,
\* never with 200.
C9_PublishFailureIs500 ==
    (Answered /\ \E send \in Sends : send.outcome = "False") =>
        call.response.status = 500

\* C10 as stated: send_message returns True only after the broker has
\* acknowledged the write, returns False when the broker write fails, and
\* never raises, whether or not the producer is started and whatever the
\* message.
C10_AsStated ==
    Answered =>
        \A send \in Sends :
            /\ send.outcome = "True" => (send.ack /\ send.published # << >>)
            /\ (producer # "None" /\ json_serializable(send.message) /\ ~send.ack)
                    => send.outcome = "False"
            /\ ~Raised(send)

\* C10: send_message returns True only after the broker has acknowledged
\* the write and returns False when a started producer's write of a
\* serializable message fails; it raises RuntimeError exactly when there is
\* no producer (never started, or stopped) and TypeError exactly when a
\* producer exists and the message cannot be serialized.
C10_SendOutcome ==
    Answered =>
        \A send \in Sends :
            /\ send.outcome = "True" => (send.ack /\ send.published # << >>)
            /\ send.outcome # "True" => send.published = << >>
            /\ (producer # "None" /\ json_serializable(send.message) /\ ~send.ack)
                    => send.outcome = "False"
            /\ send.outcome = "RuntimeError" <=> producer = "None"
            /\ send.outcome = "TypeError"
                    <=> (producer # "None" /\ ~json_serializable(send.message))
            /\ send.outcome \in {"True", "False", "RuntimeError", "TypeError"}

\* C10 witness: within one request a raw write the broker refuses is
\* reported as False and the send of an envelope holding a datetime raises
C10_Witness ==
    /\ Answered
    /\ Len(call.response.sends) = 2
    /\ call.response.sends[1].outcome = "False"
    /\ ~call.response.sends[1].ack
    /\ call.response.sends[2].outcome = "TypeError"

----------------------------------------------------------------------------
(* Properties of the event classifier (Spec) *)

\* the JSON value of the body of the answered request
Payload == json_loads(call.request.body).value

\* the answered request was authenticated, carries event type name and a
\* body that decodes to a JSON object
Event(name) ==
    /\ Answered /\ call.auth.kind = "app"
    /\ headers_get(call.request, EVENT_HEADER) = <<name>>
    /\ json_loads(call.request.body).error = "None"
    /\ Payload.t = "dict"

\* the producer is started and the broker acknowledges every write of the
\* request
BrokerUp == producer # "None" /\ \A send \in Sends : send.ack

\* the envelopes of the request that reached the validated topic
Validated == call.response.validated

HasPullRequestObject == payload_get(Payload, "pull_request", JNull).t = "object"

\* C11: a pull_request request whose payload has no pull_request object (key
\* absent, or null) is answered with 400 and publishes no validated
\* envelope; with the object present, and the broker up, it is accepted
\* with 200 and publishes one validated envelope.
C11_MissingObjectIs400 ==
    (Event("pull_request") /\ BrokerUp) =>
        IF ~HasPullRequestObject
        THEN call.response.status = 400 /\ Validated = << >>
        ELSE payload_get(Payload, "action", JStr("")).t = "str" =>
                (call.response.status = 200 /\ Len(Validated) = 1)

\* the taxonomy value the static table gives the action of the payload
Classified == event_type_map_get(payload_get(Payload, "action", JStr("")))

\* C12: a pull_request request is classified by its action alone: an action
\* of the static table gives the table's taxonomy value, every other action,
\* a missing or empty one included, gives 'other', and in both cases the
\* request is accepted with 200 and its envelope of that type is published.
C12_ActionClassifies ==
    (Event("pull_request") /\ HasPullRequestObject /\ BrokerUp
     /\ payload_get(Payload, "action", JStr("")).t = "str") =>
        /\ call.response.status = 200
        /\ Len(Validated) = 1
        /\ Validated[1].value[2].event_type = Classified

\* the envelope has an event type of the taxonomy that fits its shape: the
\* base shape is only built for ping, the pull-request shape only for the
\* values of the action table and 'other', and it then carries pull_request
\* data and an action string
Consistent(envelope) ==
    /\ envelope.event_type \in WebhookEventType
    /\ envelope.variant \in {"WebhookPayload", "PullRequestWebhookPayload"}
    /\ envelope.variant = "WebhookPayload" => envelope.event_type = EVENT_TYPE_PING
    /\ envelope.variant = "PullRequestWebhookPayload"
            <=> envelope.event_type \in PullRequestTypes \cup {EVENT_TYPE_OTHER}
    /\ envelope.event_type \in PullRequestTypes \cup {EVENT_TYPE_OTHER} =>
            /\ envelope.pull_request.t = "object"
            /\ envelope.action.t = "str"

\* the send_message calls of the answered request for the validated topic
ValidatedSends == {send \in Sends : send.topic = VALIDATED_TOPIC}

\* C13: every envelope on the validated topic, and every envelope the
\* handler hands to the publisher for that topic, has an event type of the
\* closed taxonomy consistent with its shape; an envelope of a
\* pull_request.* type, or of type 'other' built from a pull_request event,
\* carries non-null pull_request data and an action string.
C13_ValidatedEnvelopes ==
    /\ \A i \in 1..Len(validatedTopic) : Consistent(validatedTopic[i].value[2])
    /\ Answered => \A send \in ValidatedSends : Consistent(send.message)

\* C13 witness: a pull_request event with an action outside the table is
\* handed to the publisher as an envelope of type 'other' in the
\* pull-request shape, after the raw envelope was published
C13_Witness ==
    /\ Event("pull_request") /\ BrokerUp
    /\ Len(rawTopic) > 0
    /\ \E send \in ValidatedSends :
         /\ send.message.variant = "PullRequestWebhookPayload"
         /\ send.message.event_type = EVENT_TYPE_OTHER
         /\ send.message.action = JStr("bogus")

\* C14: an authenticated ping request whose body is a JSON object is
\* answered, with the broker up, 200 {"message": "Pong!"} whatever the
\* object holds, and the only envelope built for it is a base envelope of
\* type ping.
C14_PingIsPong ==
    (Event("ping") /\ BrokerUp) =>
        /\ call.response.status = 200
        /\ call.response.message = "Pong!"
        /\ \A send \in ValidatedSends :
             /\ send.message.variant = "WebhookPayload"
             /\ send.message.event_type = EVENT_TYPE_PING

\* the event types handle_webhook has a handler for
Recognized == {"ping", "pull_request"} \cup DOMAIN StubMessages

\* the answered request was authenticated, names an event type without a
\* handler and has a body that decodes
Unsupported ==
    /\ Answered /\ call.auth.kind = "app"
    /\ headers_get(call.request, EVENT_HEADER) # << >>
    /\ \A name \in Recognized : headers_get(call.request, EVENT_HEADER) # <<name>>
    /\ json_loads(call.request.body).error = "None"

DeliveryId ==
    IF headers_get(call.request, DELIVERY_HEADER) # << >>
    THEN headers_get(call.request, DELIVERY_HEADER) ELSE Uuid

\* the record was written under the delivery id its message holds
KeyedByDeliveryId(record) == record.key = record.value[2].delivery_id

\* C16: every send_message call of a request, for the raw and for the
\* validated topic, is keyed by the delivery id of the request, which is
\* also the delivery id inside the message: the header value when present,
\* otherwise the one identifier generated for the request; every record on
\* either topic is keyed by the delivery id inside it.
C16_KeyedByDeliveryId ==
    /\ Answered =>
         \A send \in Sends :
            /\ send.key = DeliveryId
            /\ send.message.delivery_id = DeliveryId
            /\ \A i \in 1..Len(send.published) :
                 send.published[i].key = DeliveryId /\ KeyedByDeliveryId(send.published[i])
    /\ \A i \in 1..Len(rawTopic) : KeyedByDeliveryId(rawTopic[i])
    /\ \A i \in 1..Len(validatedTopic) : KeyedByDeliveryId(validatedTopic[i])

\* C16 witness: a request without a delivery-id header whose raw message
\* was published and whose envelope was handed to the publisher, both under
\* the generated identifier
C16_Witness ==
    /\ Answered /\ BrokerUp
    /\ DELIVERY_HEADER \notin DOMAIN call.request.headers
    /\ Len(call.response.sends) = 2
    /\ call.response.sends[1].published # << >>
    /\ call.response.sends[1].key = Uuid
    /\ call.response.sends[2].topic = VALIDATED_TOPIC
    /\ call.response.sends[2].key = Uuid

\* some record of the topic holds delivery id d
OnTopic(topic, d) == \E i \in 1..Len(topic) : topic[i].value[2].delivery_id = d

TypedFamilies == {"pull_request"} \cup DOMAIN StubMessages

\* C18: a 200 answer to an authenticated request of a typed event family
\* means that exactly one validated envelope with the delivery id of the
\* request was published.
C18_SuccessMeansValidated ==
    (Answered /\ call.auth.kind = "app"
     /\ (\E name \in TypedFamilies : headers_get(call.request, EVENT_HEADER) = <<name>>)
     /\ call.response.status = 200) =>
        /\ Len(Validated) = 1
        /\ Validated[1].value[2].delivery_id = DeliveryId

----------------------------------------------------------------------------
(* Channel subscriber: KafkaConsumer of git-integration *)

\* the handlers a caller may register: one that returns and one that raises
Handlers == {"h_returns", "h_raises"}

Raises(handler) == handler = "h_raises"

\* Python's None as an argument of a handler
PyNone == <<"<None>">>

KEY_INVALID_UTF8 == <<"\\xff">>

\* a record of a topic: value and key are bytes, an absent key is << >>
Message(value, key) == [value |-> value, key |-> key]

\* the records published to the topics of the subscriber
MessageChoices ==
    {Message(BODY_EMPTY_OBJECT, Delivery1),
     Message(BODY_PING, << >>),
     Message(BODY_NOT_JSON, Delivery1),
     Message(BODY_INVALID_UTF8, Delivery1),
     Message(BODY_EMPTY_OBJECT, KEY_INVALID_UTF8)}

\* message.key.decode("utf-8") if message.key else None
key_decode(key) ==
    IF key = << >> THEN [error |-> "None", value |-> PyNone]
    ELSE IF key = KEY_INVALID_UTF8 THEN [error |-> "UnicodeDecodeError", value |-> PyNone]
    ELSE [error |-> "None", value |-> key]

\* json.loads(message.value.decode("utf-8")): bytes that are not UTF-8 fail
\* in decode, text that is not JSON in loads
value_decode(value) == json_loads(value)

\* aiokafka.AIOKafkaConsumer(**config): not started yet
Client(topics) == [subscription |-> topics, state |-> "created"]

\* a reference to a consumer object is 0 for None, -1 for a consumer whose
\* stop() has been entered (closed for good) and the slot of an open one
Open(ref) == ref >= 1

\* the reference ref once the consumer closed has been closed
Closed(ref, closed) == IF Open(closed) /\ ref = closed THEN -1 ELSE ref

\* no record in hand
NoMessage == Message("", << >>)

\* a _consume_loop task: its position, the consumer it iterates, how the
\* last record ended and, while a record is dispatched, the record and its
\* topic, the position of the for loop in the handler list, the handler
\* list when the dispatch began, whether that list has been left alone
\* since, whether the list iterated is still the one in the registry, and
\* the handler calls made
Loop ==
    [pc |-> "while", client |-> 0, outcome |-> "none",
     topic |-> "", message |-> NoMessage, i |-> 0,
     snapshot |-> << >>, stable |-> TRUE, alias |-> FALSE, calls |-> << >>]

\* the loop waits for a record on the consumer client
Polling(client, outcome) ==
    [Loop EXCEPT !.pc = "poll", !.client = client, !.outcome = outcome]

SetLoop(l, loop) == loops' = [loops EXCEPT ![l] = loop]

\* the task of loop l has returned
EndLoop(l) == loops' = SubSeq(loops, 1, l - 1) \o SubSeq(loops, l + 1, Len(loops))

\* the registry or the subscription of a topic changes under the loops that
\* are dispatching a record of it
Touch(topic, deleted) ==
    [l \in DOMAIN loops |->
        IF loops[l].pc = "dispatch" /\ loops[l].topic = topic
        THEN [loops[l] EXCEPT !.stable = FALSE,
                              !.alias = IF deleted THEN FALSE ELSE @]
        ELSE loops[l]]

\* the number of handlers registered
RECURSIVE Registered(_)
Registered(registry) ==
    IF DOMAIN registry = {} THEN 0
    ELSE LET topic == CHOOSE t \in DOMAIN registry : TRUE
         IN Len(registry[topic])
            + Registered([t \in (DOMAIN registry) \ {topic} |-> registry[t]])

\* variant: every occurrence is removed
RECURSIVE list_remove_all(_, _)
list_remove_all(list, handler) ==
    IF list = << >> THEN << >>
    ELSE IF Head(list) = handler THEN list_remove_all(Tail(list), handler)
    ELSE <<Head(list)>> \o list_remove_all(Tail(list), handler)

\* list.remove(handler): the first occurrence
RECURSIVE list_remove(_, _)
list_remove(list, handler) ==
    IF list = << >> THEN << >>
    ELSE IF Head(list) = handler THEN Tail(list)
    ELSE <<Head(list)>> \o list_remove(Tail(list), handler)

\* AIOKafkaConsumer.subscribe(topics) raises ValueError for an empty list
\* and leaves the subscription as it was
subscribe(client, topics) ==
    IF topics = {} THEN clients
    ELSE [clients EXCEPT ![client].subscription = topics]

\* the consumer objects, the loops and the suspended calls once the
\* consumer closed has been closed
CloseClients(closed) == [clients EXCEPT ![closed] = Free]

CloseLoops(closed) ==
    [l \in DOMAIN loops |-> [loops[l] EXCEPT !.client = Closed(@, closed)]]

ClosePending(closed) == {[call_ EXCEPT !.client = Closed(@, closed)] : call_ \in pending}

\* the start() calls at or past their await, read loop tasks included
Tasks == Len(loops) + Cardinality({call_ \in pending : call_.op = "start"})

\* KafkaConsumer.start, up to 'await self.consumer.start()'
start ==
    /\ IF consumer # 0 THEN UNCHANGED subscriberVars
       ELSE /\ \E slot \in DOMAIN clients : clients[slot] = Free
            /\ \/ DOMAIN handlers = {}
               \/ Tasks < MaxTasks
            /\ LET client == CHOOSE slot \in DOMAIN clients :
                                /\ clients[slot] = Free
                                /\ \A other \in DOMAIN clients :
                                       clients[other] = Free => slot <= other
                   topics == DOMAIN handlers
               IN /\ consumer' = client
                  /\ clients' = [clients EXCEPT ![client] = Client(topics)]
                  /\ pending' = IF topics = {} THEN pending
                                ELSE pending \cup {[op |-> "start", client |-> client]}
            /\ UNCHANGED <<handlers, running, loops, broker>>
    /\ UNCHANGED webhookVars

\* KafkaConsumer.start, after 'await self.consumer.start()' has returned
start_resume(call_) ==
    /\ call_.op = "start"
    /\ pending' = pending \ {call_}
    /\ clients' = IF Open(call_.client)
                  THEN [clients EXCEPT ![call_.client].state = "started"]
                  ELSE clients
    /\ running' = TRUE
    /\ loops' = Append(loops, Loop)
    /\ UNCHANGED <<handlers, consumer, broker>>
    /\ UNCHANGED webhookVars

\* KafkaConsumer.start when 'await self.consumer.start()' raises
start_raises(call_) ==
    /\ call_.op = "start"
    /\ pending' = pending \ {call_}
    /\ UNCHANGED <<handlers, consumer, running, clients, loops, broker>>
    /\ UNCHANGED webhookVars

\* variant: stop() without the test 'if self.consumer is None'
stop_without_test ==
    /\ running' = FALSE
    /\ IF Open(consumer)
       THEN /\ consumer' = Closed(consumer, consumer)
            /\ clients' = CloseClients(consumer)
            /\ loops' = CloseLoops(consumer)
       ELSE /\ consumer' = 0
            /\ UNCHANGED <<clients, loops>>
    /\ pending' = (IF Open(consumer) THEN ClosePending(consumer) ELSE pending)
                      \cup {[op |-> "stop", client |-> 0]}
    /\ UNCHANGED <<handlers, broker>>
    /\ UNCHANGED webhookVars

\* KafkaConsumer.stop, up to 'await self.consumer.stop()': the broker
\* consumer is closed from the moment its stop() is entered, and the stop()
\* of a closed consumer returns without suspending
stop ==
    /\ IF consumer = 0 THEN UNCHANGED subscriberVars
       ELSE IF ~Open(consumer)
       THEN /\ running' = FALSE
            /\ consumer' = 0
            /\ UNCHANGED <<handlers, clients, loops, pending, broker>>
       ELSE /\ running' = FALSE
            /\ consumer' = Closed(consumer, consumer)
            /\ clients' = CloseClients(consumer)
            /\ loops' = CloseLoops(consumer)
            /\ pending' = ClosePending(consumer) \cup {[op |-> "stop", client |-> 0]}
            /\ UNCHANGED <<handlers, broker>>
    /\ UNCHANGED webhookVars

\* KafkaConsumer.stop, after 'await self.consumer.stop()' has returned
stop_resume(call_) ==
    /\ call_.op = "stop"
    /\ pending' = pending \ {call_}
    /\ consumer' = 0
    /\ UNCHANGED <<handlers, running, clients, loops, broker>>
    /\ UNCHANGED webhookVars

register_handler(topic, handler) ==
    LET list == IF topic \in DOMAIN handlers THEN handlers[topic] ELSE << >>
        registry == [t \in DOMAIN handlers \cup {topic} |->
                        IF t = topic THEN Append(list, handler) ELSE handlers[t]]
    IN /\ Registered(handlers) < MaxHandlers
       /\ handlers' = registry
       /\ clients' = IF Open(consumer) /\ running
                     THEN subscribe(consumer, DOMAIN registry) ELSE clients
       /\ loops' = Touch(topic, FALSE)
       /\ UNCHANGED <<consumer, running, pending, broker>>
       /\ UNCHANGED webhookVars

unregister_handler(topic, handler) ==
    /\ IF topic \in DOMAIN handlers /\ \E i \in DOMAIN handlers[topic] : handlers[topic][i] = handler
       THEN LET list == list_remove(handlers[topic], handler)
                registry == [t \in (DOMAIN handlers) \ {topic} |-> handlers[t]]
            IN IF list # << >>
               THEN /\ handlers' = [handlers EXCEPT ![topic] = list]
                    /\ loops' = Touch(topic, FALSE)
                    /\ UNCHANGED clients
               ELSE /\ handlers' = registry
                    /\ loops' = Touch(topic, TRUE)
                    /\ clients' = IF Open(consumer) /\ running
                                  THEN subscribe(consumer, DOMAIN registry) ELSE clients
       ELSE UNCHANGED <<handlers, loops, clients>>
    /\ UNCHANGED <<consumer, running, pending, broker>>
    /\ UNCHANGED webhookVars

\* a producer appends a record to the validated topic
Publish(message) ==
    /\ Len(broker["webhook.github.validated"]) < MaxLog
    /\ broker' = [broker EXCEPT !["webhook.github.validated"] = Append(@, message)]
    /\ UNCHANGED <<handlers, consumer, running, clients, loops, pending>>
    /\ UNCHANGED webhookVars

\* variant: a record that cannot be handled ends the async for loop
_consume_loop_record_halts_on_error(loop, topic, message) ==
    LET loaded == value_decode(message.value)
        halted(outcome) == [Loop EXCEPT !.outcome = outcome]
    IN IF loaded.error = "JSONDecodeError" THEN halted("JSONDecodeError")
       ELSE IF loaded.error # "None" THEN halted("Exception")
       ELSE IF topic \notin DOMAIN handlers THEN halted("no handler")
       ELSE [Loop EXCEPT !.pc = "dispatch", !.client = loop.client,
                         !.outcome = loop.outcome, !.topic = topic,
                         !.message = message, !.i = 1,
                         !.snapshot = handlers[topic], !.alias = TRUE]

\* the body of 'async for message in self.consumer' up to the for loop, for
\* a record of topic: the loop as it is afterwards
_consume_loop_record(loop, topic, message) ==
    LET loaded == value_decode(message.value)
    IN IF loaded.error = "JSONDecodeError"
       THEN Polling(loop.client, "JSONDecodeError")
       ELSE IF loaded.error # "None" THEN Polling(loop.client, "Exception")
       ELSE IF topic \notin DOMAIN handlers THEN Polling(loop.client, "no handler")
       ELSE [Loop EXCEPT !.pc = "dispatch", !.client = loop.client,
                         !.outcome = loop.outcome, !.topic = topic,
                         !.message = message, !.i = 1,
                         !.snapshot = handlers[topic], !.alias = TRUE]

\* the list object 'for handler in handlers' iterates: the list of the
\* registry, or the emptied list the registry has dropped
Iterated(loop) == IF loop.alias THEN handlers[loop.topic] ELSE << >>

\* 'await handler(value, key)' with the arguments the loop computes
Invoke(loop, handler) ==
    [handler |-> handler,
     value |-> value_decode(loop.message.value).value,
     key |-> key_decode(loop.message.key).value,
     raised |-> Raises(handler)]

\* how a record whose for loop made the calls ended: every exception was
\* caught and logged by 'except Exception' inside the for loop
Dispatched(calls) ==
    IF calls # << >> /\ \A k \in DOMAIN calls : calls[k].raised
    THEN "handlers raised" ELSE "dispatched"

\* variant: the exception of a handler ends the for loop
_consume_loop_call_stops_at_raise(loop) ==
    IF loop.i > Len(Iterated(loop)) THEN Polling(loop.client, Dispatched(loop.calls))
    ELSE IF key_decode(loop.message.key).error # "None"
    THEN [loop EXCEPT !.i = @ + 1]
    ELSE [loop EXCEPT !.i = IF Raises(Iterated(loop)[loop.i])
                            THEN Len(Iterated(loop)) + 1 ELSE @ + 1,
                      !.calls = Append(@, Invoke(loop, Iterated(loop)[loop.i]))]

\* variant: the handler is called and, when it raised, called once more
_consume_loop_call_retries(loop) ==
    IF loop.i > Len(Iterated(loop)) THEN Polling(loop.client, Dispatched(loop.calls))
    ELSE IF key_decode(loop.message.key).error # "None"
    THEN [loop EXCEPT !.i = @ + 1]
    ELSE LET once == Invoke(loop, Iterated(loop)[loop.i])
         IN [loop EXCEPT !.i = @ + 1,
                         !.calls = IF once.raised THEN @ \o <<once, once>>
                                   ELSE Append(@, once)]

\* one turn of 'for handler in handlers': the end of the list, a key that
\* does not decode (caught and logged, the handler is not called), or the
\* call of the next handler, whose exception is caught and logged
_consume_loop_call(loop) ==
    IF loop.i > Len(Iterated(loop)) THEN Polling(loop.client, Dispatched(loop.calls))
    ELSE IF key_decode(loop.message.key).error # "None"
    THEN [loop EXCEPT !.i = @ + 1]
    ELSE [loop EXCEPT !.i = @ + 1,
                      !.calls = Append(@, Invoke(loop, Iterated(loop)[loop.i]))]

\* the _consume_loop task runs up to its next await: 'while self.running'
\* ends the task; 'async for message in self.consumer' raises TypeError
\* without a consumer and AttributeError on a consumer that was never
\* started, both caught by the outer 'except Exception', after which the
\* finally clause calls stop() if self.running; otherwise the task waits for
\* a record
_consume_loop_while(l) ==
    /\ loops[l].pc = "while"
    /\ IF ~running \/ consumer = 0
       THEN /\ EndLoop(l)
            /\ UNCHANGED <<consumer, running, clients, pending>>
       ELSE IF Open(consumer) /\ clients[consumer].state = "created"
       THEN /\ running' = FALSE
            /\ consumer' = Closed(consumer, consumer)
            /\ clients' = CloseClients(consumer)
            /\ pending' = ClosePending(consumer)
            /\ loops' = [CloseLoops(consumer) EXCEPT ![l] = [Loop EXCEPT !.pc = "stopping"]]
       ELSE /\ SetLoop(l, Polling(consumer, loops[l].outcome))
            /\ UNCHANGED <<consumer, running, clients, pending>>
    /\ UNCHANGED <<handlers, broker>>
    /\ UNCHANGED webhookVars

\* the consumer hands the loop the next record of a subscribed topic, or
\* ends the iteration when it has been stopped
_consume_loop_poll(l) ==
    /\ loops[l].pc = "poll"
    /\ IF ~Open(loops[l].client)
       THEN SetLoop(l, Loop) /\ UNCHANGED broker
       ELSE \E topic \in clients[loops[l].client].subscription :
               /\ broker[topic] # << >>
               /\ broker' = [broker EXCEPT ![topic] = Tail(@)]
               /\ SetLoop(l, _consume_loop_record(loops[l], topic, Head(broker[topic])))
    /\ UNCHANGED <<handlers, consumer, running, clients, pending>>
    /\ UNCHANGED webhookVars

\* the consumer raises a KafkaError: logged, sleep(1), back to the while test
_consume_loop_kafka_error(l) ==
    /\ loops[l].pc = "poll"
    /\ Open(loops[l].client) /\ clients[loops[l].client].state = "started"
    /\ SetLoop(l, Loop)
    /\ UNCHANGED <<handlers, consumer, running, clients, pending, broker>>
    /\ UNCHANGED webhookVars

_consume_loop_dispatch(l) ==
    /\ loops[l].pc = "dispatch"
    /\ SetLoop(l, _consume_loop_call(loops[l]))
    /\ UNCHANGED <<handlers, consumer, running, clients, pending, broker>>
    /\ UNCHANGED webhookVars

\* the stop() of the finally clause after 'await self.consumer.stop()'
_consume_loop_stopped(l) ==
    /\ loops[l].pc = "stopping"
    /\ consumer' = 0
    /\ EndLoop(l)
    /\ UNCHANGED <<handlers, running, clients, pending, broker>>
    /\ UNCHANGED webhookVars

\* no _consume_loop task is in its for loop
Quiet == \A l \in DOMAIN loops : loops[l].pc # "dispatch"

\* the registrations callers make: either handler on the validated topic,
\* and the returning handler on the other topic, which gets no records
Registrations ==
    ({"webhook.github.validated"} \X Handlers) \cup {<<"other.topic", "h_returns">>}

\* no start() that creates a read loop task is under way and no read loop
\* task is alive
SingleLoop == Tasks = 0 \/ DOMAIN handlers = {} \/ consumer # 0

\* the subscriber with callers that register and unregister handlers
\* between two dispatches and start it when no read loop task of an earlier
\* start is alive, and handlers that return or raise
NextConsumer ==
    \/ SingleLoop /\ start
    \/ \E call_ \in pending : start_resume(call_)
    \/ \E call_ \in pending : start_raises(call_)
    \/ stop
    \/ \E call_ \in pending : stop_resume(call_)
    \/ Quiet /\ \E registration \in Registrations :
                   register_handler(registration[1], registration[2])
    \/ Quiet /\ \E registration \in Registrations :
                   unregister_handler(registration[1], registration[2])
    \/ \E message \in MessageChoices : Publish(message)
    \/ \E l \in DOMAIN loops : _consume_loop_while(l)
    \/ \E l \in DOMAIN loops : _consume_loop_poll(l)
    \/ \E l \in DOMAIN loops : _consume_loop_kafka_error(l)
    \/ \E l \in DOMAIN loops : _consume_loop_dispatch(l)
    \/ \E l \in DOMAIN loops : _consume_loop_stopped(l)

SpecConsumer == Init /\ [][NextConsumer]_vars

\* the records of one delivery: two records with the same key
RestartMessages ==
    {Message(BODY_EMPTY_OBJECT, Delivery1), Message(BODY_PING, Delivery1)}

\* the subscriber of main.py, with handlers on the validated topic only,
\* under callers that stop and start it again at any time
NextRestart ==
    \/ start
    \/ \E call_ \in pending : start_resume(call_)
    \/ stop
    \/ \E call_ \in pending : stop_resume(call_)
    \/ Quiet /\ \E handler \in Handlers : register_handler("webhook.github.validated", handler)
    \/ \E message \in RestartMessages : Publish(message)
    \/ \E l \in DOMAIN loops : _consume_loop_while(l)
    \/ \E l \in DOMAIN loops : _consume_loop_poll(l)
    \/ \E l \in DOMAIN loops : _consume_loop_dispatch(l)
    \/ \E l \in DOMAIN loops : _consume_loop_stopped(l)

SpecRestart == Init /\ [][NextRestart]_vars


(***************************************************************************)
(* Dispatch properties of the read loop                                    *)
(***************************************************************************)

\* the record in the hands of the loop decodes: its value is JSON and its
\* key is absent or UTF-8
Decodes(loop) ==
    /\ value_decode(loop.message.value).error = "None"
    /\ key_decode(loop.message.key).error = "None"

\* the call the k-th handler registered for the topic of the record is due
Due(loop, k) ==
    [handler |-> loop.snapshot[k],
     value |-> value_decode(loop.message.value).value,
     key |-> key_decode(loop.message.key).value,
     raised |-> Raises(loop.snapshot[k])]

\* the loop l keeps its place in loops over the step
Stays(l) == l \in DOMAIN loops' /\ Len(loops') >= Len(loops)

\* the calls made for the record so far are those due to the first handlers of
\* the topic, one each and in registration order, and the for loop is left
\* only when every handler has been called
InRegistrationOrder(l) ==
    LET loop == loops[l]
    IN (loop.pc = "dispatch" /\ loop.stable /\ Decodes(loop)) =>
          /\ loop.i \in 1..(Len(loop.snapshot) + 1)
          /\ Len(loop.calls) = loop.i - 1
          /\ \A k \in DOMAIN loop.calls : loop.calls[k] = Due(loop, k)
          /\ (Stays(l) /\ loops'[l].pc # "dispatch") => Len(loop.calls) = Len(loop.snapshot)

\* C19: for every record a running subscriber reads and decodes, the
\* handlers registered for the topic of the record are called once each in
\* registration order with the decoded value and key, and a handler that
\* raises does not keep the later handlers from being called
C19_InRegistrationOrder == [][\A l \in DOMAIN loops : InRegistrationOrder(l)]_vars

\* a record with a key was given to two handlers, the first of which raised
C19_Witness ==
    \E l \in DOMAIN loops :
        /\ loops[l].pc = "dispatch"
        /\ loops[l].snapshot = <<"h_raises", "h_returns">>
        /\ Len(loops[l].calls) = 2
        /\ loops[l].calls[1].raised
        /\ loops[l].calls[2].handler = "h_returns"
        /\ loops[l].calls[2].key # PyNone

\* the ways a record ends that the loop logs as an error or a warning
BadOutcomes == {"JSONDecodeError", "Exception", "no handler", "handlers raised"}

\* the step ends the handling of a record by the loop l
Ended(l) ==
    /\ Stays(l)
    /\ \/ loops[l].pc = "poll" /\ broker' # broker /\ loops'[l] # loops[l]
       \/ loops[l].pc = "dispatch"
    /\ loops'[l].pc # "dispatch"

\* the loop l waits for the next record of the same consumer and the
\* subscriber is as it was
StillReading(l) ==
    /\ loops'[l].pc = "poll"
    /\ loops'[l].client = loops[l].client
    /\ running' = running
    /\ consumer' = consumer
    /\ clients' = clients

\* C20: a record that is not decodable JSON, a record of a topic without
\* handlers and a record all of whose handlers raise leave the loop reading
\* the same consumer and the subscriber running, so that the next record is
\* dispatched
C20_LoopSurvives ==
    [][\A l \in DOMAIN loops :
          (Ended(l) /\ loops'[l].outcome \in BadOutcomes) => StillReading(l)]_vars

\* a record is being given to a handler by a running subscriber whose
\* previous record was not decodable JSON
C20_Witness ==
    \E l \in DOMAIN loops :
        /\ running
        /\ loops[l].pc = "dispatch"
        /\ loops[l].outcome = "JSONDecodeError"
        /\ loops[l].calls # << >>

\* the same after a record of a topic without handlers
C20_WitnessNoHandler ==
    \E l \in DOMAIN loops :
        /\ running
        /\ loops[l].pc = "dispatch"
        /\ loops[l].outcome = "no handler"
        /\ loops[l].calls # << >>

\* the same after a record all of whose handlers raised
C20_WitnessHandlersRaised ==
    \E l \in DOMAIN loops :
        /\ running
        /\ loops[l].pc = "dispatch"
        /\ loops[l].outcome = "handlers raised"
        /\ loops[l].calls # << >>

----------------------------------------------------------------------------
(* Lifecycle and registry properties of the subscriber *)

\* the state of the subscriber as its fields tell it: running is the flag
\* of the read loop, a consumer whose stop() has been entered is being
\* stopped, a consumer held otherwise is being started
Lifecycle ==
    IF running THEN "Running"
    ELSE IF consumer = 0 THEN "Stopped"
    ELSE IF Open(consumer) THEN "Starting"
    ELSE "Stopping"

\* the moves of the state machine, and the stop() of a subscriber that is
\* being started
LifecycleMoves ==
    {<<"Stopped", "Starting">>, <<"Starting", "Running">>,
     <<"Running", "Stopping">>, <<"Stopping", "Stopped">>,
     <<"Starting", "Stopping">>}

\* C21: under every interleaving of start(), stop(), register_handler and
\* unregister_handler the subscriber only moves Stopped -> Starting ->
\* Running -> Stopping -> Stopped: it becomes Running only out of Starting
\* and leaves Running only through Stopping
C21_Lifecycle ==
    [][Lifecycle' # Lifecycle => <<Lifecycle, Lifecycle'>> \in LifecycleMoves]_vars

\* C22: start() on a subscriber without registered topics changes nothing:
\* no broker consumer is held, the subscriber is not running and no read
\* loop task exists afterwards
C22_StartWithoutTopicsIsNoOp ==
    [][(consumer = 0 /\ DOMAIN handlers = {} /\ start) => UNCHANGED subscriberVars]_vars

\* C23: stop() on a subscriber that holds no consumer, because it was never
\* started or has been stopped, changes no state and makes no broker call
C23_StopIsIdempotent ==
    [][(consumer = 0 /\ stop) => UNCHANGED subscriberVars]_vars

\* a stop() has completed and the read loop task it has stopped is still to
\* notice: a further stop() finds no consumer
C23_Witness ==
    /\ consumer = 0
    /\ ~running
    /\ pending = {}
    /\ loops # << >>

\* C24: while the subscriber is running, every register_handler and
\* unregister_handler call that changes the registry leaves the broker
\* subscription equal to the set of topics that have a handler
C24_SubscriptionFollowsRegistry ==
    [][(running /\ Open(consumer) /\ handlers' # handlers) =>
          clients'[consumer].subscription = DOMAIN handlers']_vars

\* handler is registered for topic
IsRegistered(topic, handler) ==
    /\ topic \in DOMAIN handlers
    /\ \E i \in DOMAIN handlers[topic] : handlers[topic][i] = handler

\* the registry after the step has handler at the end of the list of topic
\* and is otherwise as before
Appended(topic, handler) ==
    LET list == IF topic \in DOMAIN handlers THEN handlers[topic] ELSE << >>
    IN /\ DOMAIN handlers' = DOMAIN handlers \cup {topic}
       /\ handlers'[topic] = list \o <<handler>>
       /\ \A t \in DOMAIN handlers \ {topic} : handlers'[t] = handlers[t]

\* the registry after the step lacks one occurrence of handler in the list
\* of topic, the others keeping their order, and lacks the topic when the
\* list had no other handler
Removed(topic, handler) ==
    /\ topic \in DOMAIN handlers
    /\ \E i \in DOMAIN handlers[topic] :
          /\ handlers[topic][i] = handler
          /\ LET list == handlers[topic]
                 rest == [k \in 1..(Len(list) - 1) |->
                             IF k < i THEN list[k] ELSE list[k + 1]]
             IN IF rest = << >>
                THEN DOMAIN handlers' = DOMAIN handlers \ {topic}
                ELSE /\ DOMAIN handlers' = DOMAIN handlers
                     /\ handlers'[topic] = rest
    /\ \A t \in DOMAIN handlers \ {topic} : handlers'[t] = handlers[t]

\* C25: the registry keeps the handlers of each topic in insertion order,
\* never maps a topic to an empty list, and unregistering a handler that is
\* not registered for the topic leaves registry and subscription unchanged
C25_Registry ==
    [][/\ \A t \in DOMAIN handlers' : handlers'[t] # << >>
       /\ handlers' # handlers =>
             \E topic \in Topics, handler \in Handlers :
                 Appended(topic, handler) \/ Removed(topic, handler)
       /\ \/ UNCHANGED <<handlers, clients>>
          \/ \A topic \in Topics, handler \in Handlers :
                 ~(~IsRegistered(topic, handler) /\ unregister_handler(topic, handler))]_vars

\* the last handler of a running subscriber has been unregistered: the
\* registry has no topic left
C25_Witness ==
    /\ running
    /\ Open(consumer)
    /\ clients[consumer].subscription # {}
    /\ handlers = << >>

----------------------------------------------------------------------------
(* Delivery properties of the subscriber *)

\* the next record of topic leaves the broker in this step
Taken(topic) ==
    /\ broker[topic] # << >>
    /\ broker' = [broker EXCEPT ![topic] = Tail(@)]

\* a record as the publisher of the webhook service writes it:
\* json.dumps(message).encode("utf-8") with key.encode("utf-8") or no key
Published(message) ==
    /\ value_decode(message.value).error = "None"
    /\ key_decode(message.key).error = "None"

\* the records of the topics leave the broker only towards a read loop that
\* waits on a consumer subscribed to the topic
OnlyTaken ==
    broker' # broker =>
        \/ \E message \in MessageChoices : Publish(message)
        \/ \E topic \in Topics :
              /\ Taken(topic)
              /\ \E l \in DOMAIN loops :
                    /\ loops[l].pc = "poll"
                    /\ Open(loops[l].client)
                    /\ topic \in clients[loops[l].client].subscription

\* a published record that leaves the broker while its topic has one
\* handler is in the hands of one read loop afterwards, no call made yet
HandedOver ==
    \A topic \in Topics :
        (/\ Taken(topic)
         /\ Published(Head(broker[topic]))
         /\ topic \in DOMAIN handlers
         /\ Len(handlers[topic]) = 1) =>
            \E l \in DOMAIN loops :
                /\ loops[l].pc = "poll"
                /\ loops' = [loops EXCEPT ![l] = loops'[l]]
                /\ loops'[l].pc = "dispatch"
                /\ loops'[l].topic = topic
                /\ loops'[l].message = Head(broker[topic])
                /\ loops'[l].snapshot = handlers[topic]
                /\ loops'[l].i = 1
                /\ loops'[l].calls = << >>

\* the loop l, holding a published record for the one handler of its topic,
\* has called the handler at most once, with that record, and lets go of the
\* record only after the call
CalledOnce(l) ==
    LET loop == loops[l]
    IN (/\ loop.pc = "dispatch"
        /\ loop.stable
        /\ Published(loop.message)
        /\ Len(loop.snapshot) = 1) =>
           /\ loop.calls \in {<< >>, <<Due(loop, 1)>>}
           /\ (Stays(l) /\ loops'[l] # loop) =>
                 IF loop.calls = << >>
                 THEN loops'[l] = [loop EXCEPT !.i = 2, !.calls = <<Due(loop, 1)>>]
                      \/ loops'[l] = [loop EXCEPT !.client = loops'[l].client]
                 ELSE loops'[l].pc # "dispatch"
                      \/ loops'[l] = [loop EXCEPT !.client = loops'[l].client]

\* C26: with one handler registered on the topic, every record the
\* publisher has written to the topic is handed to that handler exactly
\* once: a record leaves the broker only into the hands of one read loop,
\* which calls the handler once with it and then reads on
C26_ExactlyOnce ==
    [][/\ OnlyTaken
       /\ HandedOver
       /\ \A l \in DOMAIN loops : CalledOnce(l)]_vars

\* the one handler of the topic has been called with the record and the
\* broker holds no further record
C26_Witness ==
    \E l \in DOMAIN loops :
        /\ loops[l].pc = "dispatch"
        /\ Published(loops[l].message)
        /\ handlers = [topic \in {loops[l].topic} |-> <<"h_returns">>]
        /\ loops[l].calls = <<Due(loops[l], 1)>>
        /\ broker[loops[l].topic] = << >>

\* the handlers of the record in the hands of loop that are still to be
\* called
ToRun(loop) == loop.pc = "dispatch" /\ loop.i <= Len(Iterated(loop))

\* C28: a stop() called while a record is dispatched does not complete, and
\* the subscriber is not Stopped (no consumer, not running), while a handler
\* of that record is still to run
C28_GracefulDrain ==
    (consumer = 0 /\ ~running) => \A l \in DOMAIN loops : ~ToRun(loops[l])

----------------------------------------------------------------------------
(* Serialization of the envelopes *)

\* C29: for every envelope the webhook service builds, base and pull-request
\* variant, the serialization of the publisher succeeds, and the bytes
\* published decode to the envelope again
C29_RoundTrip ==
    Answered =>
        \A send \in ValidatedSends :
            /\ send.outcome # "TypeError"
            /\ \A i \in DOMAIN send.published :
                  send.published[i].value = json_dumps(send.message)

----------------------------------------------------------------------------
(* Pull-request processing of git-integration: WebhookHandler and EventProcessor *)

\* a JSON number, written as its digits
JInt(v) == [t |-> "int", v |-> v]

\* value[k1][k2]...: KeyError for a missing key, TypeError for the
\* subscript of a value that is not a dict
RECURSIVE Subscript(_, _)
Subscript(value, keys) ==
    IF keys = << >> THEN [error |-> "None", value |-> value]
    ELSE IF value.t # "dict" THEN [error |-> "TypeError", value |-> JNull]
    ELSE IF Head(keys) \notin DOMAIN value.items THEN [error |-> "KeyError", value |-> JNull]
    ELSE Subscript(value.items[Head(keys)], Tail(keys))

\* PullRequestEvent(**payload): action: str and three Dict[str, Any]
\* fields, all required
PullRequestEvent(payload) ==
    /\ "action" \in DOMAIN payload.items
    /\ payload.items["action"].t = "str"
    /\ \A field \in {"pull_request", "repository", "sender"} :
          /\ field \in DOMAIN payload.items
          /\ payload.items[field].t = "dict"

\* the actions that queue a review
ReviewedActions == {"opened", "synchronize", "reopened"}

REVIEW_TOPIC == "pull_request.review"

\* the subscripts evaluated for the queued message, in evaluation order
ReviewReads ==
    << <<"repo_owner", <<"repository", "owner", "login">> >>,
       <<"repo_name", <<"repository", "name">> >>,
       <<"pr_number", <<"pull_request", "number">> >>,
       <<"head_sha", <<"pull_request", "head", "sha">> >>,
       <<"base_sha", <<"pull_request", "base", "sha">> >>,
       <<"title", <<"pull_request", "title">> >>,
       <<"description", <<"pull_request", "body">> >>,
       <<"user", <<"sender", "login">> >>,
       <<"created_at", <<"pull_request", "created_at">> >>,
       <<"updated_at", <<"pull_request", "updated_at">> >> >>

\* the key of the message that the i-th subscript fills
ReviewKey(i) == ReviewReads[i][1]

\* the exception of the first subscript that fails, "None" if none does
RECURSIVE ReviewError(_, _)
ReviewError(payload, i) ==
    IF i > Len(ReviewReads) THEN "None"
    ELSE IF Subscript(payload, ReviewReads[i][2]).error # "None"
    THEN Subscript(payload, ReviewReads[i][2]).error
    ELSE ReviewError(payload, i + 1)

\* the dict passed to message_queue.publish
ReviewMessage(payload) ==
    [key \in {"platform"} \cup {ReviewKey(i) : i \in DOMAIN ReviewReads} |->
        IF key = "platform" THEN JStr(GITHUB)
        ELSE LET i == CHOOSE j \in DOMAIN ReviewReads : ReviewKey(j) = key
             IN Subscript(payload, ReviewReads[i][2]).value]

\* what a call of the processing functions did: the exception it raised,
\* the dict it returned (keys it lacks are null) and the publish calls made
Processed(exception, message, repo, pr_number, published) ==
    [exception |-> exception,
     result |-> [message |-> message, repo |-> repo, pr_number |-> pr_number],
     published |-> published]

Failed(exception) == Processed(exception, << >>, << >>, JNull, << >>)

\* MessageQueue.publish(topic, message): one publish call
publish(topic, message) == [topic |-> topic, message |-> message]

\* the lines the two functions share: extract, queue, return
queue_for_review(payload) ==
    IF ReviewError(payload, 1) # "None" THEN Failed(ReviewError(payload, 1))
    ELSE LET message == ReviewMessage(payload)
         IN Processed("None", <<"Pull request queued for review">>,
                      <<message["repo_owner"].v, "/", message["repo_name"].v>>,
                      message["pr_number"],
                      <<publish(REVIEW_TOPIC, message)>>)

\* the result for an action that is not reviewed
ignoring(payload) ==
    Processed("None", <<"Ignoring pull request action: ", payload.items["action"].v>>,
              << >>, JNull, << >>)

\* WebhookHandler._handle_pull_request_event
WebhookHandler_handle_pull_request_event(payload) ==
    IF ~PullRequestEvent(payload) THEN Failed("HTTPException 400")
    ELSE IF payload.items["action"].v \notin ReviewedActions THEN ignoring(payload)
    ELSE queue_for_review(payload)

\* variant: a reopened pull request is not reviewed again
process_pull_request_event_without_reopened(payload) ==
    IF ~PullRequestEvent(payload) THEN Failed("ValidationError")
    ELSE IF payload.items["action"].v \notin {"opened", "synchronize"} THEN ignoring(payload)
    ELSE queue_for_review(payload)

\* EventProcessor.process_pull_request_event
process_pull_request_event(payload) ==
    IF ~PullRequestEvent(payload) THEN Failed("ValidationError")
    ELSE IF payload.items["action"].v \notin ReviewedActions THEN ignoring(payload)
    ELSE queue_for_review(payload)

\* the shapes of the payloads: as GitHub sends them, with a null body,
\* without the title, without the sender, with a null repository owner
PayloadShapes == {"complete", "null body", "no title", "no sender", "null owner"}

dict_without(dict, key) == [k \in DOMAIN dict \ {key} |-> dict[k]]

\* a pull_request payload
GitHubPullRequest(action, owner, name, number, head, shape) ==
    LET pull_request ==
            [number |-> JInt(number), title |-> JStr("Test PR"),
             body |-> IF shape = "null body" THEN JNull ELSE JStr("Test description"),
             created_at |-> JStr("2023-05-10T12:00:00Z"),
             updated_at |-> JStr("2023-05-10T12:00:00Z"),
             head |-> JDict([sha |-> JStr(head)]),
             base |-> JDict([sha |-> JStr("base-sha")])]
        repository ==
            [name |-> JStr(name),
             owner |-> IF shape = "null owner" THEN JNull
                       ELSE JDict([login |-> JStr(owner)])]
        payload ==
            [action |-> JStr(action),
             pull_request |-> JDict(IF shape = "no title"
                                    THEN dict_without(pull_request, "title")
                                    ELSE pull_request),
             repository |-> JDict(repository),
             sender |-> JDict([login |-> JStr("test-user")])]
    IN JDict(IF shape = "no sender" THEN dict_without(payload, "sender") ELSE payload)

PullRequestPayloads ==
    {GitHubPullRequest(action, owner, name, number, head, shape) :
        action \in ReviewedActions \cup {"closed", "edited"},
        owner \in {"test-owner", "other-owner"},
        name \in {"test-repo", "other-repo"},
        number \in {"1", "2"},
        head \in {"test-sha", "other-sha"},
        shape \in PayloadShapes}

\* a call of WebhookHandler._handle_pull_request_event
HandlePullRequestEvent(payload) ==
    /\ call' = [op |-> "_handle_pull_request_event", payload |-> payload,
                outcome |-> WebhookHandler_handle_pull_request_event(payload)]
    /\ UNCHANGED <<apps, now, token, producer, rawTopic, validatedTopic>>
    /\ UNCHANGED subscriberVars

\* a call of EventProcessor.process_pull_request_event
ProcessPullRequestEvent(payload) ==
    /\ call' = [op |-> "process_pull_request_event", payload |-> payload,
                outcome |-> process_pull_request_event(payload)]
    /\ UNCHANGED <<apps, now, token, producer, rawTopic, validatedTopic>>
    /\ UNCHANGED subscriberVars

(* Issue-comment processing of git-integration: WebhookHandler and EventProcessor *)

\* IssueCommentEvent(**payload): action: str and four Dict[str, Any]
\* fields, all required
IssueCommentEvent(payload) ==
    /\ "action" \in DOMAIN payload.items
    /\ payload.items["action"].t = "str"
    /\ \A field \in {"issue", "comment", "repository", "sender"} :
          /\ field \in DOMAIN payload.items
          /\ payload.items[field].t = "dict"

COMMENT_TOPIC == "comment.process"

\* the default of chat.commands.prefix and of bot_prefix
DEFAULT_PREFIX == "@opencr"

\* the subscripts evaluated before the prefix test, in evaluation order
CommentReads ==
    << <<"repo_owner", <<"repository", "owner", "login">> >>,
       <<"repo_name", <<"repository", "name">> >>,
       <<"pr_number", <<"issue", "number">> >>,
       <<"comment_id", <<"comment", "id">> >>,
       <<"comment_body", <<"comment", "body">> >>,
       <<"user", <<"sender", "login">> >> >>

\* the subscript evaluated while the message is built
CommentCreatedAt == <<"comment", "created_at">>

\* the exception of the first subscript that fails, "None" if none does
RECURSIVE CommentError(_, _)
CommentError(payload, i) ==
    IF i > Len(CommentReads) THEN "None"
    ELSE IF Subscript(payload, CommentReads[i][2]).error # "None"
    THEN Subscript(payload, CommentReads[i][2]).error
    ELSE CommentError(payload, i + 1)

\* the dict passed to message_queue.publish
CommentMessage(payload) ==
    [key \in {"platform", "created_at"} \cup {CommentReads[i][1] : i \in DOMAIN CommentReads} |->
        CASE key = "platform" -> JStr(GITHUB)
          [] key = "created_at" -> Subscript(payload, CommentCreatedAt).value
          [] OTHER -> LET i == CHOOSE j \in DOMAIN CommentReads : CommentReads[j][1] = key
                      IN Subscript(payload, CommentReads[i][2]).value]

\* what a call of the comment processing functions did: the exception it
\* raised, the dict it returned (keys it lacks are null) and the publish
\* calls made
ProcessedComment(exception, message, repo, pr_number, comment_id, published) ==
    [exception |-> exception,
     result |-> [message |-> message, repo |-> repo, pr_number |-> pr_number,
                 comment_id |-> comment_id],
     published |-> published]

FailedComment(exception) == ProcessedComment(exception, << >>, << >>, JNull, JNull, << >>)

IgnoredComment(why) ==
    ProcessedComment("None", <<"Ignoring comment: ", why>>, << >>, JNull, JNull, << >>)

\* variant: every new comment on a pull request is queued, addressed to
\* the bot or not
queue_comment_without_prefix_test(payload, bot_name) ==
    IF \/ payload.items["action"].v # "created"
       \/ "pull_request" \notin DOMAIN payload.items["issue"].items
    THEN IgnoredComment("not a new comment on a pull request")
    ELSE IF CommentError(payload, 1) # "None" THEN FailedComment(CommentError(payload, 1))
    ELSE IF Subscript(payload, CommentCreatedAt).error # "None"
    THEN FailedComment(Subscript(payload, CommentCreatedAt).error)
    ELSE LET message == CommentMessage(payload)
         IN ProcessedComment("None", <<"Comment queued for processing">>,
                             <<message["repo_owner"].v, "/", message["repo_name"].v>>,
                             message["pr_number"], message["comment_id"],
                             <<publish(COMMENT_TOPIC, message)>>)

\* the lines the two functions share after the model is built: the test of
\* the action and of the issue, extract, test the prefix, queue, return
queue_comment(payload, bot_name) ==
    IF \/ payload.items["action"].v # "created"
       \/ "pull_request" \notin DOMAIN payload.items["issue"].items
    THEN IgnoredComment("not a new comment on a pull request")
    ELSE IF CommentError(payload, 1) # "None" THEN FailedComment(CommentError(payload, 1))
    ELSE LET comment_body == Subscript(payload, <<"comment", "body">>).value
         IN IF comment_body.t # "str" THEN FailedComment("AttributeError")
            ELSE IF ~startswith(comment_body.v, bot_name)
            THEN IgnoredComment("not addressed to the bot")
            ELSE IF Subscript(payload, CommentCreatedAt).error # "None"
            THEN FailedComment(Subscript(payload, CommentCreatedAt).error)
            ELSE LET message == CommentMessage(payload)
                 IN ProcessedComment("None", <<"Comment queued for processing">>,
                                     <<message["repo_owner"].v, "/", message["repo_name"].v>>,
                                     message["pr_number"], message["comment_id"],
                                     <<publish(COMMENT_TOPIC, message)>>)

\* WebhookHandler._handle_issue_comment_event, bot_name read from the
\* configuration
WebhookHandler_handle_issue_comment_event(payload, bot_name) ==
    IF ~IssueCommentEvent(payload) THEN FailedComment("HTTPException 400")
    ELSE queue_comment(payload, bot_name)

\* EventProcessor.process_issue_comment_event, bot_prefix a field of the
\* processor
process_issue_comment_event(payload, bot_prefix) ==
    IF ~IssueCommentEvent(payload) THEN FailedComment("ValidationError")
    ELSE queue_comment(payload, bot_prefix)

\* the shapes of the payloads: as GitHub sends them for a comment on a
\* pull request, for a comment on a plain issue, with a null comment body,
\* without created_at, without the sender
CommentShapes == {"on pull request", "on issue", "null body", "no created_at", "no sender"}

\* the texts of the comments
CommentBodies ==
    {<<"@opencr", " review this">>, <<"@opencr">>, <<"@bot", " explain">>,
     <<"thanks ", "@opencr">>, << >>}

\* the configured prefixes
BotPrefixes == {DEFAULT_PREFIX, "@bot"}

\* an issue_comment payload
GitHubIssueComment(action, number, text, shape) ==
    LET issue == [number |-> JInt(number), pull_request |-> JDict([url |-> JStr("pulls/1")])]
        comment == [id |-> JInt("12345"),
                    body |-> IF shape = "null body" THEN JNull ELSE JStr(text),
                    created_at |-> JStr("2023-05-10T12:00:00Z")]
        payload ==
            [action |-> JStr(action),
             issue |-> JDict(IF shape = "on issue"
                             THEN dict_without(issue, "pull_request") ELSE issue),
             comment |-> JDict(IF shape = "no created_at"
                               THEN dict_without(comment, "created_at") ELSE comment),
             repository |-> JDict([name |-> JStr("test-repo"),
                                   owner |-> JDict([login |-> JStr("test-owner")])]),
             sender |-> JDict([login |-> JStr("test-user")])]
    IN JDict(IF shape = "no sender" THEN dict_without(payload, "sender") ELSE payload)

IssueCommentPayloads ==
    {GitHubIssueComment(action, number, text, shape) :
        action \in {"created", "edited", "deleted"},
        number \in {"1", "2"},
        text \in CommentBodies,
        shape \in CommentShapes}

\* a call of WebhookHandler._handle_issue_comment_event
HandleIssueCommentEvent(payload, bot_name) ==
    /\ call' = [op |-> "_handle_issue_comment_event", payload |-> payload,
                prefix |-> bot_name,
                outcome |-> WebhookHandler_handle_issue_comment_event(payload, bot_name)]
    /\ UNCHANGED <<apps, now, token, producer, rawTopic, validatedTopic>>
    /\ UNCHANGED subscriberVars

\* a call of EventProcessor.process_issue_comment_event
ProcessIssueCommentEvent(payload, bot_prefix) ==
    /\ call' = [op |-> "process_issue_comment_event", payload |-> payload,
                prefix |-> bot_prefix,
                outcome |-> process_issue_comment_event(payload, bot_prefix)]
    /\ UNCHANGED <<apps, now, token, producer, rawTopic, validatedTopic>>
    /\ UNCHANGED subscriberVars

----------------------------------------------------------------------------
(* The direct GitHub endpoint of git-integration: WebhookHandler.handle_webhook *)

\* config.get("git.github.webhook_secret") when GITHUB_WEBHOOK_SECRET is
\* not set (None) or set to the empty string: "not self.webhook_secret"
NoSecret == << >>

BODY_PULL_REQUEST_OPENED == "{\"action\": \"opened\", \"pull_request\": {\"number\": 1, ..}, ..}"
BODY_PULL_REQUEST_CLOSED == "{\"action\": \"closed\", \"pull_request\": {\"number\": 1, ..}, ..}"
BODY_COMMENT_ADDRESSED == "{\"action\": \"created\", \"comment\": {\"body\": \"@opencr review this\", ..}, ..}"
BODY_COMMENT_OTHER == "{\"action\": \"created\", \"comment\": {\"body\": \"thanks @opencr\", ..}, ..}"

\* the bodies sent to the endpoint
EventBodies ==
    {BODY_INVALID_UTF8, BODY_NOT_JSON, BODY_ARRAY, BODY_EMPTY_OBJECT, BODY_PING,
     BODY_PULL_REQUEST_OPENED, BODY_PULL_REQUEST_CLOSED,
     BODY_COMMENT_ADDRESSED, BODY_COMMENT_OTHER}

\* json.loads(body) for the bodies sent to the endpoint
loads(body) ==
    CASE body = BODY_PULL_REQUEST_OPENED ->
            [error |-> "None",
             value |-> GitHubPullRequest("opened", "test-owner", "test-repo", "1",
                                         "test-sha", "complete")]
      [] body = BODY_PULL_REQUEST_CLOSED ->
            [error |-> "None",
             value |-> GitHubPullRequest("closed", "test-owner", "test-repo", "1",
                                         "test-sha", "complete")]
      [] body = BODY_COMMENT_ADDRESSED ->
            [error |-> "None",
             value |-> GitHubIssueComment("created", "1", <<"@opencr", " review this">>,
                                          "on pull request")]
      [] body = BODY_COMMENT_OTHER ->
            [error |-> "None",
             value |-> GitHubIssueComment("created", "1", <<"thanks ", "@opencr">>,
                                          "on pull request")]
      [] OTHER -> json_loads(body)

\* WebhookHandler.verify_signature: a TypeError of compare_digest is caught
\* by "except Exception" and gives False
verify_signature(webhook_secret, request) ==
    IF webhook_secret = NoSecret THEN TRUE
    ELSE IF headers_get(request, SIG_HEADER) = << >> THEN FALSE
    ELSE compare_digest(<<"sha256=">> \o hexdigest(webhook_secret, request.body),
                        headers_get(request, SIG_HEADER)) = "True"

\* WebhookHandler.handle_webhook of a handler built from a configuration
\* with this secret and this command prefix
WebhookHandler_handle_webhook(webhook_secret, bot_name, request) ==
    LET event_type == headers_get(request, EVENT_HEADER)
        parsed == loads(request.body)
    IN IF ~verify_signature(webhook_secret, request) THEN Failed("HTTPException 401")
       ELSE IF event_type = << >> THEN Failed("HTTPException 400")
       ELSE IF parsed.error = "JSONDecodeError" THEN Failed("HTTPException 400")
       ELSE IF parsed.error # "None" THEN Failed(parsed.error)
       ELSE IF event_type = <<"ping">>
       THEN Processed("None", <<"Pong!">>, << >>, JNull, << >>)
       ELSE IF event_type = <<"pull_request">>
       THEN WebhookHandler_handle_pull_request_event(parsed.value)
       ELSE IF event_type = <<"issue_comment">>
       THEN WebhookHandler_handle_issue_comment_event(parsed.value, bot_name)
       ELSE Processed("None", <<"Event type ">> \o event_type \o <<" not supported">>,
                      << >>, JNull, << >>)

\* the signature headers sent with a body: none, empty, the signature under
\* each secret, the signature of another body, one that is not ASCII, and
\* the digest without its prefix
SignatureChoices(body) ==
    {Absent, << >>, Signed(Secret1, body), Signed(Secret2, body), Signed(NoSecret, body),
     Signed(Secret1, BODY_NOT_JSON), <<"sha256=", NonAscii>>, hexdigest(Secret1, body)}

\* the event types sent to the endpoint
EventTypes == {Absent, <<"ping">>, <<"pull_request">>, <<"issue_comment">>, <<"push">>}

WebhookRequests ==
    {Request(sig, Absent, Absent, event, Absent, body) :
        sig \in UNION {SignatureChoices(b) : b \in EventBodies},
        event \in EventTypes, body \in EventBodies}

\* a request to POST /webhooks/github: get_webhook_handler builds the
\* handler from the configuration, handle_webhook answers
HandleWebhook(webhook_secret, bot_name, request) ==
    /\ call' = [op |-> "handle_webhook", secret |-> webhook_secret, prefix |-> bot_name,
                request |-> request,
                outcome |-> WebhookHandler_handle_webhook(webhook_secret, bot_name, request)]
    /\ UNCHANGED <<apps, now, token, producer, rawTopic, validatedTopic>>
    /\ UNCHANGED subscriberVars

----------------------------------------------------------------------------
(* The processing calls *)

(* Validated-topic subscriber of the integration service: KafkaWebhookHandler *)

\* EventProcessor.process_event: the dispatch on the exact event type; what the
\* called method raises is raised again
process_event(event_type, payload, bot_prefix) ==
    IF event_type = "ping" THEN Processed("None", <<"Pong!">>, << >>, JNull, << >>)
    ELSE IF event_type = "pull_request" THEN process_pull_request_event(payload)
    ELSE IF event_type = "issue_comment" THEN process_issue_comment_event(payload, bot_prefix)
    ELSE Processed("None", <<"Event type ", event_type, " not supported">>,
                   << >>, JNull, << >>)

\* Python's "not value" on a JSON value
falsy(value) ==
    CASE value.t = "null" -> TRUE
      [] value.t = "dict" -> DOMAIN value.items = {}
      [] value.t = "list" -> TRUE
      [] value.t = "str" -> value.v = ""
      [] value.t = "object" -> value.v = "{}"
      [] OTHER -> FALSE

\* what handle_webhook_event leaves behind: the line it logs and the messages
\* its event processor published
Handled(logged, published) == [logged |-> logged, published |-> published]

\* KafkaWebhookHandler.handle_webhook_event: every exception is logged, none
\* leaves the handler
handle_webhook_event(message, bot_prefix) ==
    IF "event_type" \notin DOMAIN message \/ message.event_type = ""
    THEN Handled(<<"Missing event type in message">>, << >>)
    ELSE IF "raw_payload" \notin DOMAIN message \/ falsy(message.raw_payload)
    THEN Handled(<<"Missing raw payload in message">>, << >>)
    ELSE LET processed == process_event(message.event_type, message.raw_payload, bot_prefix)
         IN IF processed.exception # "None"
            THEN Handled(<<"Error processing event: ", processed.exception>>, << >>)
            ELSE Handled(<<"Event processed: ">> \o processed.result.message,
                         processed.published)

\* the dict read from 'webhook.github.validated' for the envelope that
\* _handle_pull_request_event builds for a payload: the envelope's fields as
\* JSON, the enum member as its string value, the timestamp left out
PullRequestEnvelope(payload) ==
    LET action == payload_get(payload, "action", JStr(""))
        envelope == PullRequestWebhookPayload(event_type_map_get(action), "d1", "a1",
                                              payload, 0)
    IN [field \in DOMAIN envelope \ {"variant", "timestamp"} |-> envelope[field]]

\* an envelope carrying the event name of GitHub's X-GitHub-Event header
NamedEnvelope(event_type, payload) ==
    [platform |-> GITHUB, event_type |-> event_type, delivery_id |-> "d1",
     app_id |-> "a1", raw_payload |-> payload]

EnvelopePayloads ==
    {GitHubPullRequest(action, "test-owner", "test-repo", "1", "test-sha", shape) :
        action \in ReviewedActions \cup {"closed"}, shape \in {"complete", "no sender"}}

KafkaMessages ==
    {PullRequestEnvelope(payload) : payload \in EnvelopePayloads}
    \cup {NamedEnvelope(event_type, payload) :
            event_type \in {"ping", "pull_request", "push", ""},
            payload \in EnvelopePayloads \cup {JDict(<< >>)}}
    \cup {NamedEnvelope("issue_comment", payload) :
            payload \in {GitHubIssueComment("created", "1", text, "on pull request") :
                            text \in CommentBodies}}
    \cup {[platform |-> GITHUB, delivery_id |-> "d1"]}

HandleWebhookEvent(message, bot_prefix) ==
    /\ call' = [op |-> "handle_webhook_event", message |-> message, prefix |-> bot_prefix,
                outcome |-> handle_webhook_event(message, bot_prefix)]
    /\ UNCHANGED <<apps, now, token, producer, rawTopic, validatedTopic>>
    /\ UNCHANGED subscriberVars

NextProcessor ==
    \/ call = Idle /\ \E payload \in PullRequestPayloads : HandlePullRequestEvent(payload)
    \/ call = Idle /\ \E payload \in PullRequestPayloads : ProcessPullRequestEvent(payload)
    \/ call = Idle /\ \E payload \in IssueCommentPayloads, bot_name \in BotPrefixes :
                        HandleIssueCommentEvent(payload, bot_name)
    \/ call = Idle /\ \E payload \in IssueCommentPayloads, bot_prefix \in BotPrefixes :
                        ProcessIssueCommentEvent(payload, bot_prefix)
    \/ call = Idle /\ \E webhook_secret \in {NoSecret, Secret1}, request \in WebhookRequests :
                        HandleWebhook(webhook_secret, DEFAULT_PREFIX, request)
    \/ call = Idle /\ \E message \in KafkaMessages : HandleWebhookEvent(message, DEFAULT_PREFIX)
    \/ Return

SpecProcessor == Init /\ [][NextProcessor]_vars

\* a call of one of the two pull-request processing functions has returned
\* or raised
ProcessedCall ==
    /\ call # Idle
    /\ call.op \in {"_handle_pull_request_event", "process_pull_request_event"}

\* the payload of the call is a pull_request payload as GitHub sends it: it
\* has the four fields of the model and, under them, every key the
\* processing reads
AsGitHubSendsIt ==
    /\ PullRequestEvent(call.payload)
    /\ \A i \in DOMAIN ReviewReads : Subscript(call.payload, ReviewReads[i][2]).error = "None"

\* the message carries the owner, the repository name, the number and the
\* head and base SHAs of the payload
CarriesPayload(message) ==
    LET items == call.payload.items
    IN /\ message["platform"] = JStr("github")
       /\ message["repo_owner"] = items["repository"].items["owner"].items["login"]
       /\ message["repo_name"] = items["repository"].items["name"]
       /\ message["pr_number"] = items["pull_request"].items["number"]
       /\ message["head_sha"] = items["pull_request"].items["head"].items["sha"]
       /\ message["base_sha"] = items["pull_request"].items["base"].items["sha"]

C30_WitnessIgnored ==
    /\ ProcessedCall
    /\ AsGitHubSendsIt
    /\ call.op = "_handle_pull_request_event"
    /\ call.payload.items["action"] = JStr("closed")
    /\ call.outcome.published = << >>

----------------------------------------------------------------------------
(* Ordering of the dispatches *)

\* the loops l and m hold records with the same key, each has called a
\* handler for its record and each has a handler of its record still to run
Interleaved(l, m) ==
    /\ loops[l].pc = "dispatch" /\ loops[m].pc = "dispatch"
    /\ Decodes(loops[l]) /\ Decodes(loops[m])
    /\ key_decode(loops[l].message.key).value # PyNone
    /\ key_decode(loops[l].message.key) = key_decode(loops[m].message.key)
    /\ loops[l].calls # << >> /\ ToRun(loops[l])
    /\ loops[m].calls # << >> /\ ToRun(loops[m])

\* C27: of two records published with the same key, every handler of the
\* earlier one has been called and has returned before a handler of the
\* later one is called: two records with the same key are never both partly
\* dispatched
C27_InPublishOrder ==
    \A l, m \in DOMAIN loops : l # m => ~Interleaved(l, m)

----------------------------------------------------------------------------
(* Properties of the issue-comment processing (SpecProcessor) *)

\* a call of one of the two issue-comment processing functions has
\* returned or raised
ProcessedCommentCall ==
    /\ call # Idle
    /\ call.op \in {"_handle_issue_comment_event", "process_issue_comment_event"}

\* the payload of the call is an issue_comment payload as GitHub sends it:
\* it has the five fields of the model, under them every key the processing
\* reads, and the comment body is a string
CommentAsGitHubSendsIt ==
    /\ IssueCommentEvent(call.payload)
    /\ \A i \in DOMAIN CommentReads : Subscript(call.payload, CommentReads[i][2]).error = "None"
    /\ Subscript(call.payload, <<"comment", "created_at">>).error = "None"
    /\ call.payload.items["comment"].items["body"].t = "str"

\* the comment of the call is a new comment on a pull request whose text
\* begins with the configured prefix
AddressedToBot ==
    LET items == call.payload.items
        text == items["comment"].items["body"].v
    IN /\ items["action"].v = "created"
       /\ "pull_request" \in DOMAIN items["issue"].items
       /\ text # << >>
       /\ Head(text) = call.prefix

\* the message carries the repository, the number of the issue, and the
\* id, text and author of the comment
CarriesComment(message) ==
    LET items == call.payload.items
    IN /\ message["platform"] = JStr("github")
       /\ message["repo_owner"] = items["repository"].items["owner"].items["login"]
       /\ message["repo_name"] = items["repository"].items["name"]
       /\ message["pr_number"] = items["issue"].items["number"]
       /\ message["comment_id"] = items["comment"].items["id"]
       /\ message["comment_body"] = items["comment"].items["body"]
       /\ message["user"] = items["sender"].items["login"]

\* C40: for an issue_comment payload, both processing functions publish
\* exactly one message to 'comment.process' if and only if the action is
\* 'created', the issue has a 'pull_request' entry and the comment body
\* starts with the configured bot prefix; otherwise they publish nothing
\* and return an 'Ignoring comment' result
C40_IssueCommentProcessing ==
    (ProcessedCommentCall /\ CommentAsGitHubSendsIt) =>
        LET outcome == call.outcome
        IN /\ outcome.exception = "None"
           /\ IF AddressedToBot
              THEN /\ Len(outcome.published) = 1
                   /\ outcome.published[1].topic = "comment.process"
                   /\ CarriesComment(outcome.published[1].message)
                   /\ outcome.result.message = <<"Comment queued for processing">>
              ELSE /\ outcome.published = << >>
                   /\ Len(outcome.result.message) = 2
                   /\ outcome.result.message[1] = "Ignoring comment: "

\* EventProcessor, built with the prefix "@bot", has queued a comment on
\* the second pull request
C40_Witness ==
    /\ ProcessedCommentCall
    /\ CommentAsGitHubSendsIt
    /\ call.op = "process_issue_comment_event"
    /\ call.prefix = "@bot"
    /\ AddressedToBot
    /\ Len(call.outcome.published) = 1
    /\ call.outcome.published[1].message["pr_number"] = JInt("2")

\* WebhookHandler has ignored a new comment on a pull request that names
\* the bot but does not begin with its prefix
C40_WitnessNotAddressed ==
    /\ ProcessedCommentCall
    /\ CommentAsGitHubSendsIt
    /\ call.op = "_handle_issue_comment_event"
    /\ call.payload.items["action"] = JStr("created")
    /\ "pull_request" \in DOMAIN call.payload.items["issue"].items
    /\ call.payload.items["comment"].items["body"].v = <<"thanks ", "@opencr">>
    /\ call.outcome.result.message = <<"Ignoring comment: ", "not addressed to the bot">>

\* EventProcessor has ignored a comment on a plain issue that begins with
\* the prefix
C40_WitnessPlainIssue ==
    /\ ProcessedCommentCall
    /\ CommentAsGitHubSendsIt
    /\ call.op = "process_issue_comment_event"
    /\ call.payload.items["action"] = JStr("created")
    /\ "pull_request" \notin DOMAIN call.payload.items["issue"].items
    /\ call.payload.items["comment"].items["body"].v # << >>
    /\ Head(call.payload.items["comment"].items["body"].v) = call.prefix
    /\ call.outcome.published = << >>

----------------------------------------------------------------------------
(* Properties of the direct GitHub endpoint (SpecProcessor) *)

\* handle_webhook has answered a request
HandledWebhook ==
    /\ call # Idle
    /\ call.op = "handle_webhook"

\* the request carries the signature of its body under the secret of the
\* configuration
ValidSignature ==
    /\ SIG_HEADER \in DOMAIN call.request.headers
    /\ call.request.headers[SIG_HEADER] =
          <<"sha256=">> \o hexdigest(call.secret, call.request.body)

\* the body of the request is JSON text
JsonBody == loads(call.request.body).error = "None"

\* C31: handle_webhook rejects with 401 every request whose signature
\* header is missing or is not 'sha256=' + HMAC-SHA256(configured secret,
\* body), whatever its event type and body, and publishes nothing for it; a
\* 'ping' with a valid signature is answered "Pong!" and an unsupported
\* event type "Event type <type> not supported", without publishing
C31_SignatureGate ==
    HandledWebhook =>
        LET outcome == call.outcome
            event_type == headers_get(call.request, EVENT_HEADER)
        IN IF ~ValidSignature
           THEN /\ outcome.exception = "HTTPException 401"
                /\ outcome.published = << >>
           ELSE (JsonBody /\ event_type \notin {<< >>, <<"pull_request">>, <<"issue_comment">>}) =>
                   /\ outcome.exception = "None"
                   /\ outcome.published = << >>
                   /\ outcome.result.message =
                         IF event_type = <<"ping">> THEN <<"Pong!">>
                         ELSE <<"Event type ">> \o event_type \o <<" not supported">>

----------------------------------------------------------------------------
(* Frame of the credential store (SpecAuth) *)

\* every record of the store is still there, unchanged
RecordsKept ==
    \A id \in DOMAIN apps : id \in DOMAIN apps' /\ apps'[id] = apps[id]

\* this step is a call of the operation op
Calls(op) == call = Idle /\ call'.op = op

\* C32: the credential store changes only through register_app:
\* authenticate_app (with the get_app it makes) and create_access_token
\* leave every record unchanged whatever their outcome, a successful
\* register_app adds the record of a new id, and register_app with an id
\* that is already registered fails with 400 and leaves the record of that
\* id as it was
C32_StoreChangesOnlyByRegistration ==
    [][/\ RecordsKept
       /\ (Calls("authenticate_app") \/ Calls("create_access_token")) => apps' = apps
       /\ apps' # apps =>
             /\ Calls("register_app")
             /\ call'.status = 200
             /\ call'.app.id \notin DOMAIN apps
             /\ apps' = apps @@ (call'.app.id :> call'.app)
       /\ (Calls("register_app") /\ call'.app.id \in DOMAIN apps) =>
             /\ call'.status = 400
             /\ apps' = apps]_vars

\* register_app has refused a second record for a registered id that
\* differs from the stored one, after a token was created
C32_Witness ==
    /\ call.op = "register_app"
    /\ call.status = 400
    /\ call.app.id \in DOMAIN apps
    /\ apps[call.app.id] # call.app
    /\ token # << >>

----------------------------------------------------------------------------
(* Restart properties of the subscriber (SpecRestart) *)

\* the subscriber is Running: the flag is set and the consumer it holds has
\* been started
Started ==
    /\ running
    /\ Open(consumer)
    /\ clients[consumer].state = "started"

\* the read loop task l finds that it cannot iterate the consumer held and
\* stops the subscriber from its finally clause
StopsFromFinally(l) ==
    /\ loops[l].pc = "while"
    /\ l \in DOMAIN loops'
    /\ loops'[l].pc = "stopping"

\* C33: a subscriber that was stopped and started again stays Running
\* until stop() is called again: it leaves Running only in a step that is a
\* call of stop(), and no read loop task stops the consumer that a start()
\* has created and is still starting, which can only be the task of an
\* earlier start()
C33_KeepsLaterConsumer ==
    [][/\ (Started /\ ~Started') => stop
       /\ \A l \in DOMAIN loops :
             (Open(consumer) /\ clients[consumer].subscription # {}) => ~StopsFromFinally(l)]_vars


\* C34: in every reachable state of the subscriber the running flag is set
\* only while a broker consumer object is held: running implies that
\* consumer is not None
C34_RunningHoldsConsumer == running => consumer # 0


\* the read loop task l is at work: it dispatches a record or waits for one
\* on a consumer that has not been stopped
Active(l) ==
    \/ loops[l].pc = "dispatch"
    \/ loops[l].pc = "poll" /\ Open(loops[l].client)

\* C35: at most one read loop task of the subscriber is at work at any
\* time: start() on a subscriber that holds a consumer creates no task and
\* no consumer, and after stop() and start() no task of the earlier cycle
\* reads or dispatches records next to the task of the new one
C35_SingleReadLoop ==
    [][/\ (consumer # 0 /\ start) => UNCHANGED subscriberVars
       /\ \A l, m \in DOMAIN loops' : (Active(l) /\ Active(m))' => l = m]_vars


\* the subscriber has not been started since its construction or since
\* start() was called on it without a registered topic: it is not running
\* and holds no consumer, or the consumer that such a start() leaves
NotStarted ==
    /\ ~running
    /\ \/ consumer = 0
       \/ Open(consumer) /\ clients[consumer] = Client({})

\* C36: a subscriber that has handlers registered and has not been
\* started, whether or not start() was called on it before while no topic
\* was registered, can be started: a call of start() creates a consumer
\* subscribed to the registered topics and begins to start it
C36_StartAfterEmptyStart ==
    (NotStarted /\ DOMAIN handlers # {} /\ pending = {} /\ loops = << >>) =>
        ENABLED (/\ start
                 /\ Open(consumer')
                 /\ clients'[consumer'].subscription = DOMAIN handlers
                 /\ [op |-> "start", client |-> consumer'] \in pending')

----------------------------------------------------------------------------
(* The subscriber under handlers that change the registry (SpecMutation) *)

\* the subscriber of main.py with handlers on the validated topic that
\* register and unregister handlers of that topic, themselves included,
\* while a record is dispatched
NextMutation ==
    \/ SingleLoop /\ start
    \/ \E call_ \in pending : start_resume(call_)
    \/ \E handler \in Handlers : register_handler("webhook.github.validated", handler)
    \/ \E handler \in Handlers : unregister_handler("webhook.github.validated", handler)
    \/ \E message \in RestartMessages : Publish(message)
    \/ \E l \in DOMAIN loops : _consume_loop_while(l)
    \/ \E l \in DOMAIN loops : _consume_loop_poll(l)
    \/ \E l \in DOMAIN loops : _consume_loop_dispatch(l)

SpecMutation == Init /\ [][NextMutation]_vars

\* the handlers of a list
Members(list) == {list[k] : k \in DOMAIN list}

\* the for loop of the loop l ends in this step
EndsDispatch(l) ==
    /\ loops[l].pc = "dispatch"
    /\ Stays(l)
    /\ loops'[l].pc # "dispatch"

\* the handlers that were registered for the topic of the record when its
\* dispatch began and are registered still, in the list the loop iterates
Remaining(loop) ==
    IF loop.alias /\ loop.topic \in DOMAIN handlers
    THEN Members(loop.snapshot) \cap Members(handlers[loop.topic])
    ELSE {}

\* C37: when the registry of the topic is changed while a record is
\* dispatched, no handler is skipped: every handler that was registered for
\* the topic when the dispatch began and has not been removed has been
\* invoked for the record when the for loop ends
C37_NoHandlerSkipped ==
    [][\A l \in DOMAIN loops :
          (EndsDispatch(l) /\ Decodes(loops[l])) =>
              \A handler \in Remaining(loops[l]) :
                  \E k \in DOMAIN loops[l].calls : loops[l].calls[k].handler = handler]_vars


----------------------------------------------------------------------------
(* C38: the envelope of a reviewed pull request reaches PR processing *)

HandledEvent == call # Idle /\ call.op = "handle_webhook_event"

\* the envelopes the webhook service builds for well-formed pull_request
\* webhooks whose action is opened, synchronize or reopened
ReviewedEnvelopes ==
    {PullRequestEnvelope(payload) :
        payload \in {p \in EnvelopePayloads :
                        PullRequestEvent(p) /\ p.items["action"].v \in ReviewedActions}}

\* C38: for every validated envelope the webhook service builds for a
\* pull_request webhook with action opened, synchronize or reopened, the
\* subscriber's handler dispatches it to pull request processing and exactly
\* one message is queued on 'pull_request.review'
C38_EndToEnd ==
    (HandledEvent /\ call.message \in ReviewedEnvelopes) =>
        /\ Len(call.outcome.published) = 1
        /\ call.outcome.published[1].topic = REVIEW_TOPIC

\* the same handler queues the review when the envelope carries the event
\* name "pull_request" itself
C38_NamedEnvelopeQueued ==
    (/\ HandledEvent
     /\ "event_type" \in DOMAIN call.message
     /\ call.message.event_type = "pull_request"
     /\ PullRequestEvent(call.message.raw_payload)
     /\ call.message.raw_payload.items["action"].v \in ReviewedActions) =>
        /\ Len(call.outcome.published) = 1
        /\ call.outcome.published[1].topic = REVIEW_TOPIC


----------------------------------------------------------------------------
(* C39: what the outcome of authenticate_app depends on *)

AuthenticatedCall == call # Idle /\ call.op = "authenticate_app"

\* the records that differ from an App in the active flag, the permissions,
\* the scopes, the name or the owner only
Relabelled(app) ==
    {[id |-> app.id, webhook_secret |-> app.webhook_secret, api_key |-> app.api_key,
      name |-> name, owner |-> owner, permissions |-> permissions, scopes |-> scopes,
      active |-> active] :
        name \in {app.name, "Renamed"},
        owner \in {app.owner, "other@example.com"},
        permissions \in {app.permissions, << >>},
        scopes \in {<< >>, <<"repository">>},
        active \in BOOLEAN}

\* the stores that agree with store on whether app_id is registered and on
\* its webhook secret and API key: the record of app_id relabelled, the other
\* application absent or registered with any secret and key
Variants(store, app_id) ==
    LET other_id == CHOOSE id \in AppIds : id # app_id
        own == IF app_id \in DOMAIN store
               THEN {app_id :> app : app \in Relabelled(store[app_id])}
               ELSE {<< >>}
        others == {<< >>}
                  \cup {other_id :> App(other_id, "Other", secret, key, TRUE) :
                          secret \in {Secret1, Secret2}, key \in {<< >>, Key1, Key2}}
    IN {mine @@ theirs : mine \in own, theirs \in others}

\* C39: the accept/reject outcome of authenticate_app is the same for every
\* store that differs from the actual one only in the application's active
\* flag, permissions, scopes, name or owner, or in the records of other
\* applications
C39_OutcomeDependsOnCredentialsOnly ==
    AuthenticatedCall =>
        \A store \in Variants(apps, call.app_id) :
            LET result == authenticate_app(store, call.app_id, call.request, now)
            IN /\ result.kind = call.result.kind
               /\ result.id = call.result.id

\* an application that is registered as inactive is accepted on its signature
\* while another application is registered too
C39_Witness ==
    /\ AuthenticatedCall
    /\ call.result.kind = "app"
    /\ ~apps[call.app_id].active
    /\ DOMAIN apps = AppIds

\* an unregistered application is turned away whatever the other record holds
C39_WitnessUnknown ==
    /\ AuthenticatedCall
    /\ call.app_id \notin DOMAIN apps
    /\ apps # << >>
    /\ call.result.kind = "None"

====
